---- MODULE Spec2Model ----
(***************************************************************************)
(* A model of the financial analysis engine (lib/financial-analysis):      *)
(* transaction categorisation, the metrics engine, the spending            *)
(* aggregator and the insight generator; and of the investment planner     *)
(* (lib/investment-planning): allocations, recommendation, portfolio       *)
(* performance and portfolio risk.                                         *)
(*                                                                         *)
(* Strings are sequences of one-character strings, so that toLowerCase()   *)
(* and String.prototype.includes() are computed, not assumed.  The numbers *)
(* of the analysis engine are modelled as exact rationals (plus NaN and    *)
(* the infinities), without floating-point rounding; the numbers of the    *)
(* investment planner (lib/investment-planning) are IEEE 754 binary64.     *)
(***************************************************************************)
EXTENDS Integers, Sequences, FiniteSets, TLC

VARIABLES
  description,    \* categorizeTransaction: the argument of the call
  category,       \* categorizeTransaction: the returned value (NoResult before the call)
  now,            \* the ambient clock read by new Date(): the local calendar date
  tz,             \* the server's time zone as getTimezoneOffset() gives it: UTC minus local time, in hours
  transactions,   \* the transaction list handed to the metrics engine and the aggregator
  emergencyFundBalance,  \* the balance handed to calculateFinancialMetrics
  metrics,        \* the last call of calculateFinancialMetrics: the clock it read and its result
  spending,       \* the last call of analyzeSpendingByCategory: the clock it read and its result
  insights,       \* the last call of generateFinancialInsights: its result
  profile,        \* the investment profile handed to the allocation functions
  ageBasedAllocation,   \* the last call of calculateAgeBasedAllocation: its result
  goalBasedAllocation,  \* the last call of calculateGoalBasedAllocation: its result
  recommendation, \* the last call of generateInvestmentRecommendation: its result
  allocation,     \* the allocation handed to assessPortfolioRisk
  risk,           \* the last call of assessPortfolioRisk: its result
  investments,    \* the holdings handed to calculatePortfolioPerformance
  performance,    \* the last call of calculatePortfolioPerformance: its result
  goal,           \* the arguments handed to calculateMonthlyContributionNeeded
  contribution,   \* the last call of calculateMonthlyContributionNeeded: its result
  plan,           \* the arguments handed to projectInvestmentGoal
  projection,     \* the call of projectInvestmentGoal: its position, its locals, its result
  page,           \* the chat page: the state of the component as of its last render
  pending,        \* the chat page: the handler that waits for a fetch, and the render it closed over
  request,        \* the request in flight from the chat page, or NoRequest
  handler,        \* the route handler at work on the request: its position and its locals
  response,       \* the response on its way to the chat page, or NoResponse
  signedIn,       \* whether auth.getUser() finds a user
  chat_conversations,  \* table chat_conversations: the ids in use
  chat_messages   \* table chat_messages: its rows in order of insertion

catVars == <<description, category>>
finVars == <<now, tz, transactions, emergencyFundBalance, metrics, spending>>
insVars == <<insights>>
allocVars == <<profile, ageBasedAllocation, goalBasedAllocation, recommendation>>
riskVars == <<allocation, risk>>
perfVars == <<investments, performance>>
planVars == <<allocVars, riskVars, perfVars>>
goalVars == <<goal, contribution, plan, projection>>
chatVars == <<page, pending, request, handler, response, signedIn, chat_conversations, chat_messages>>
vars == <<catVars, finVars, insVars, planVars, goalVars, chatVars>>

NoResult == "none"

(***************************************************************************)
(* Strings                                                                 *)
(***************************************************************************)
UpperToLower ==
   "A" :> "a" @@ "B" :> "b" @@ "C" :> "c" @@ "D" :> "d" @@ "E" :> "e" @@ "F" :> "f" @@
   "G" :> "g" @@ "H" :> "h" @@ "I" :> "i" @@ "J" :> "j" @@ "K" :> "k" @@ "L" :> "l" @@
   "M" :> "m" @@ "N" :> "n" @@ "O" :> "o" @@ "P" :> "p" @@ "Q" :> "q" @@ "R" :> "r" @@
   "S" :> "s" @@ "T" :> "t" @@ "U" :> "u" @@ "V" :> "v" @@ "W" :> "w" @@ "X" :> "x" @@
   "Y" :> "y" @@ "Z" :> "z"

\* String.prototype.toLowerCase() on ASCII text
RECURSIVE toLowerCase(_)
toLowerCase(s) ==
  IF s = <<>> THEN <<>>
  ELSE <<IF Head(s) \in DOMAIN UpperToLower THEN UpperToLower[Head(s)] ELSE Head(s)>>
         \o toLowerCase(Tail(s))

\* String.prototype.includes(): keyword occurs as a contiguous substring of s
includes(s, keyword) ==
  \E i \in 0..(Len(s) - Len(keyword)) : \A k \in 1..Len(keyword) : s[i + k] = keyword[k]

(***************************************************************************)
(* Categorizer                                                             *)
(***************************************************************************)
\* Object.entries(TRANSACTION_CATEGORIES): the entries in insertion order
TRANSACTION_CATEGORIES ==
  <<
    [category |-> "Housing", keywords |-> <<
       <<"r","e","n","t">>,   \* "rent"
       <<"m","o","r","t","g","a","g","e">>,   \* "mortgage"
       <<"u","t","i","l","i","t","i","e","s">>,   \* "utilities"
       <<"i","n","s","u","r","a","n","c","e">>,   \* "insurance"
       <<"p","r","o","p","e","r","t","y"," ","t","a","x">>,   \* "property tax"
       <<"m","a","i","n","t","e","n","a","n","c","e">>    \* "maintenance"
    >>],
    [category |-> "Transportation", keywords |-> <<
       <<"g","a","s">>,   \* "gas"
       <<"c","a","r"," ","p","a","y","m","e","n","t">>,   \* "car payment"
       <<"i","n","s","u","r","a","n","c","e">>,   \* "insurance"
       <<"m","a","i","n","t","e","n","a","n","c","e">>,   \* "maintenance"
       <<"u","b","e","r">>,   \* "uber"
       <<"l","y","f","t">>,   \* "lyft"
       <<"t","a","x","i">>,   \* "taxi"
       <<"p","u","b","l","i","c"," ","t","r","a","n","s","p","o","r","t">>    \* "public transport"
    >>],
    [category |-> "Food", keywords |-> <<
       <<"g","r","o","c","e","r","y">>,   \* "grocery"
       <<"r","e","s","t","a","u","r","a","n","t">>,   \* "restaurant"
       <<"f","a","s","t"," ","f","o","o","d">>,   \* "fast food"
       <<"c","o","f","f","e","e">>,   \* "coffee"
       <<"d","i","n","i","n","g">>,   \* "dining"
       <<"t","a","k","e","o","u","t">>    \* "takeout"
    >>],
    [category |-> "Healthcare", keywords |-> <<
       <<"d","o","c","t","o","r">>,   \* "doctor"
       <<"p","h","a","r","m","a","c","y">>,   \* "pharmacy"
       <<"h","o","s","p","i","t","a","l">>,   \* "hospital"
       <<"d","e","n","t","a","l">>,   \* "dental"
       <<"v","i","s","i","o","n">>,   \* "vision"
       <<"m","e","d","i","c","a","l">>    \* "medical"
    >>],
    [category |-> "Entertainment", keywords |-> <<
       <<"m","o","v","i","e">>,   \* "movie"
       <<"s","t","r","e","a","m","i","n","g">>,   \* "streaming"
       <<"g","a","m","e","s">>,   \* "games"
       <<"c","o","n","c","e","r","t">>,   \* "concert"
       <<"s","p","o","r","t","s">>,   \* "sports"
       <<"h","o","b","b","y">>    \* "hobby"
    >>],
    [category |-> "Shopping", keywords |-> <<
       <<"c","l","o","t","h","i","n","g">>,   \* "clothing"
       <<"e","l","e","c","t","r","o","n","i","c","s">>,   \* "electronics"
       <<"h","o","m","e"," ","g","o","o","d","s">>,   \* "home goods"
       <<"p","e","r","s","o","n","a","l"," ","c","a","r","e">>,   \* "personal care"
       <<"g","i","f","t","s">>    \* "gifts"
    >>],
    [category |-> "Education", keywords |-> <<
       <<"t","u","i","t","i","o","n">>,   \* "tuition"
       <<"b","o","o","k","s">>,   \* "books"
       <<"c","o","u","r","s","e","s">>,   \* "courses"
       <<"t","r","a","i","n","i","n","g">>,   \* "training"
       <<"c","e","r","t","i","f","i","c","a","t","i","o","n">>    \* "certification"
    >>],
    [category |-> "Savings", keywords |-> <<
       <<"s","a","v","i","n","g","s"," ","a","c","c","o","u","n","t">>,   \* "savings account"
       <<"i","n","v","e","s","t","m","e","n","t">>,   \* "investment"
       <<"4","0","1","k">>,   \* "401k"
       <<"i","r","a">>,   \* "ira"
       <<"e","m","e","r","g","e","n","c","y"," ","f","u","n","d">>    \* "emergency fund"
    >>],
    [category |-> "Debt", keywords |-> <<
       <<"c","r","e","d","i","t"," ","c","a","r","d">>,   \* "credit card"
       <<"l","o","a","n"," ","p","a","y","m","e","n","t">>,   \* "loan payment"
       <<"s","t","u","d","e","n","t"," ","l","o","a","n">>,   \* "student loan"
       <<"p","e","r","s","o","n","a","l"," ","l","o","a","n">>    \* "personal loan"
    >>],
    [category |-> "Income", keywords |-> <<
       <<"s","a","l","a","r","y">>,   \* "salary"
       <<"b","o","n","u","s">>,   \* "bonus"
       <<"f","r","e","e","l","a","n","c","e">>,   \* "freelance"
       <<"i","n","v","e","s","t","m","e","n","t"," ","i","n","c","o","m","e">>,   \* "investment income"
       <<"r","e","n","t","a","l"," ","i","n","c","o","m","e">>    \* "rental income"
    >>],
    [category |-> "Other", keywords |-> <<
    >>]
  >>

CategoryNames == {TRANSACTION_CATEGORIES[i].category : i \in 1..Len(TRANSACTION_CATEGORIES)}

\* keywords.some((keyword) => lowerDesc.includes(keyword))
someKeyword(keywords, lowerDesc) ==
  \E j \in 1..Len(keywords) : includes(lowerDesc, keywords[j])

\* the for..of loop of categorizeTransaction from entry i on, with its early return
RECURSIVE scanCategories(_, _, _)
scanCategories(entries, lowerDesc, i) ==
  IF i > Len(entries) THEN "Other"
  ELSE IF someKeyword(entries[i].keywords, lowerDesc) THEN entries[i].category
  ELSE scanCategories(entries, lowerDesc, i + 1)

\* mutant: the description is matched as typed, without lower-casing it
categorizeTransaction_CaseSensitive(desc) ==
  scanCategories(TRANSACTION_CATEGORIES, desc, 1)

\* mutant: the loop does not return early, so the last matching category wins
categorizeTransaction_LastMatch(desc) ==
  LET lowerDesc == toLowerCase(desc)
      hits == {i \in 1..Len(TRANSACTION_CATEGORIES) :
                 someKeyword(TRANSACTION_CATEGORIES[i].keywords, lowerDesc)}
  IN  IF hits = {} THEN "Other"
      ELSE TRANSACTION_CATEGORIES[CHOOSE i \in hits : \A k \in hits : k <= i].category

\* mutant: the keywords of Income are tried before every other category
categorizeTransaction_IncomeFirst(desc) ==
  IF someKeyword(TRANSACTION_CATEGORIES[10].keywords, toLowerCase(desc)) THEN "Income"
  ELSE scanCategories(TRANSACTION_CATEGORIES, toLowerCase(desc), 1)

categorizeTransaction(desc) ==
  scanCategories(TRANSACTION_CATEGORIES, toLowerCase(desc), 1)

(***************************************************************************)
(* Numbers.  An integer-valued quantity (an amount, a count, a sum of      *)
(* amounts) is an integer.  The result of a JavaScript division is a       *)
(* record [n, d]: the rational n/d in lowest terms with d > 0, or one of   *)
(* the three non-finite values a division can produce.                     *)
(***************************************************************************)
Abs(i) == IF i < 0 THEN -i ELSE i

RECURSIVE GCD(_, _)
GCD(a, b) == IF b = 0 THEN a ELSE GCD(b, a % b)

NaN == [n |-> 0, d |-> 0]
PosInfinity == [n |-> 1, d |-> 0]
NegInfinity == [n |-> -1, d |-> 0]

Num(i) == [n |-> i, d |-> 1]

Rat(n, d) ==
  LET g == GCD(Abs(n), Abs(d))
      s == IF d < 0 THEN -1 ELSE 1
  IN  [n |-> (s * n) \div g, d |-> (s * d) \div g]

isNaN(x) == x = NaN
isFinite(x) == x.d # 0
Sign(i) == IF i > 0 THEN 1 ELSE IF i < 0 THEN -1 ELSE 0

\* x / y on JavaScript numbers: 0/0 is NaN and x/0 is an infinity, never an exception
jsDiv(x, y) ==
  IF isNaN(x) \/ isNaN(y) THEN NaN
  ELSE IF ~isFinite(x) THEN (IF ~isFinite(y) THEN NaN
                             ELSE IF x.n * Sign(y.n) < 0 THEN NegInfinity ELSE PosInfinity)
  ELSE IF ~isFinite(y) THEN Num(0)
  ELSE IF y.n = 0 THEN (IF x.n = 0 THEN NaN
                        ELSE IF x.n > 0 THEN PosInfinity ELSE NegInfinity)
  ELSE Rat(x.n * y.d, x.d * y.n)

\* x * y on JavaScript numbers
jsMul(x, y) ==
  IF isNaN(x) \/ isNaN(y) THEN NaN
  ELSE IF ~isFinite(x) \/ ~isFinite(y)
       THEN (IF x.n = 0 \/ y.n = 0 THEN NaN
             ELSE IF Sign(x.n) * Sign(y.n) < 0 THEN NegInfinity ELSE PosInfinity)
  ELSE Rat(x.n * y.n, x.d * y.d)

\* x + y on finite numbers
jsAdd(x, y) == Rat(x.n * y.d + y.n * x.d, x.d * y.d)

\* x < y on JavaScript numbers: false when either side is NaN
jsLt(x, y) ==
  IF isNaN(x) \/ isNaN(y) THEN FALSE
  ELSE IF ~isFinite(x) \/ ~isFinite(y)
       THEN x # y /\ (x = NegInfinity \/ y = PosInfinity)
  ELSE x.n * y.d < y.n * x.d

jsGt(x, y) == jsLt(y, x)

(***************************************************************************)
(* Numbers of the investment planner: IEEE 754 binary64, so that what the  *)
(* planner says about exact values (a sum of exactly 100) is decided by    *)
(* the arithmetic the code runs on.                                        *)
(*                                                                         *)
(* Const binds the value of an expression to a name, as a const            *)
(* declaration of the source does: the expression is evaluated once.       *)
(***************************************************************************)
Const(value, Body(_)) == CHOOSE r \in {Body(x) : x \in {value}} : TRUE
Const2(v1, v2, Body(_, _)) == CHOOSE r \in {Body(x, y) : x \in {v1}, y \in {v2}} : TRUE
Const3(v1, v2, v3, Body(_, _, _)) ==
  CHOOSE r \in {Body(x, y, z) : x \in {v1}, y \in {v2}, z \in {v3}} : TRUE

(***************************************************************************)
(* A natural number of any size is a tuple of limbs, least significant     *)
(* first, without leading zero limbs.  A limb holds 15 bits, so that a     *)
(* product of two limbs fits a machine integer.                            *)
(***************************************************************************)
LIMB == 2^15

\* a without its leading zero limbs
bnNorm(a) ==
  Const(a, LAMBDA x :
    SubSeq(x, 1, Cardinality({i \in 1..Len(x) : \E j \in i..Len(x) : x[j] # 0})))

RECURSIVE bnOfInt(_)
bnOfInt(i) ==
  Const(i, LAMBDA x : IF x = 0 THEN <<>> ELSE <<x % LIMB>> \o bnOfInt(x \div LIMB))

limbAt(a, i) == IF i > Len(a) THEN 0 ELSE a[i]

RECURSIVE bnAddAt(_, _, _, _)
bnAddAt(a, b, i, carry) ==
  Const2(i, carry, LAMBDA k, c :
    IF k > Len(a) /\ k > Len(b) THEN (IF c = 0 THEN <<>> ELSE <<c>>)
    ELSE Const(limbAt(a, k) + limbAt(b, k) + c, LAMBDA x :
           <<x % LIMB>> \o bnAddAt(a, b, k + 1, x \div LIMB)))

bnAdd(a, b) == Const2(a, b, LAMBDA x, y : bnAddAt(x, y, 1, 0))

RECURSIVE bnSubAt(_, _, _, _)
bnSubAt(a, b, i, borrow) ==
  Const2(i, borrow, LAMBDA k, c :
    IF k > Len(a) THEN <<>>
    ELSE Const(a[k] - limbAt(b, k) - c, LAMBDA x :
           <<x % LIMB>> \o bnSubAt(a, b, k + 1, IF x < 0 THEN 1 ELSE 0)))

\* a - b for a >= b
bnSub(a, b) == Const2(a, b, LAMBDA x, y : bnNorm(bnSubAt(x, y, 1, 0)))

\* -1, 0, 1 as a < b, a = b, a > b
bnCmp(a, b) ==
  Const2(a, b, LAMBDA x, y :
    IF Len(x) < Len(y) THEN -1
    ELSE IF Len(x) > Len(y) THEN 1
    ELSE Const({i \in 1..Len(x) : x[i] # y[i]}, LAMBDA differ :
           IF differ = {} THEN 0
           ELSE Const(CHOOSE i \in differ : \A j \in differ : j <= i, LAMBDA top :
                  IF x[top] < y[top] THEN -1 ELSE 1)))

RECURSIVE bnMulSmallAt(_, _, _, _)
bnMulSmallAt(a, k, i, carry) ==
  Const2(i, carry, LAMBDA j, c :
    IF j > Len(a) THEN (IF c = 0 THEN <<>> ELSE <<c>>)
    ELSE Const(a[j] * k + c, LAMBDA x :
           <<x % LIMB>> \o bnMulSmallAt(a, k, j + 1, x \div LIMB)))

\* a * k + carry for 0 <= k, carry < LIMB
bnMulSmall(a, k, carry) ==
  Const3(a, k, carry, LAMBDA x, y, c : bnNorm(bnMulSmallAt(x, y, 1, c)))

\* a * LIMB^n
bnShiftLimbs(a, n) ==
  Const2(a, n, LAMBDA x, k : IF x = <<>> THEN <<>> ELSE [i \in 1..k |-> 0] \o x)

RECURSIVE bnMulAt(_, _, _)
bnMulAt(a, b, i) ==
  Const(i, LAMBDA k :
    IF k > Len(b) THEN <<>>
    ELSE bnAdd(bnShiftLimbs(bnMulSmall(a, b[k], 0), k - 1), bnMulAt(a, b, k + 1)))

bnMul(a, b) == Const2(a, b, LAMBDA x, y : bnMulAt(x, y, 1))

\* a * 2^n
bnShl(a, n) ==
  Const2(a, n, LAMBDA x, k : bnShiftLimbs(bnMulSmall(x, 2^(k % 15), 0), k \div 15))

\* the limbs i..1 of a \div k, given the remainder of the limbs above
RECURSIVE bnDivSmallAt(_, _, _, _)
bnDivSmallAt(a, k, i, rem) ==
  Const2(i, rem, LAMBDA j, r :
    IF j = 0 THEN <<>>
    ELSE Const(r * LIMB + a[j], LAMBDA x :
           bnDivSmallAt(a, k, j - 1, x % k) \o <<x \div k>>))

\* a \div 2^n
bnShr(a, n) ==
  Const2(a, n, LAMBDA x, k :
    IF k \div 15 >= Len(x) THEN <<>>
    ELSE Const2(SubSeq(x, k \div 15 + 1, Len(x)), 2^(k % 15), LAMBDA top, d :
           bnNorm(bnDivSmallAt(top, d, Len(top), 0))))

\* a % 2^n
bnLow(a, n) ==
  Const2(a, n, LAMBDA x, k :
    IF k \div 15 >= Len(x) THEN x
    ELSE bnNorm(SubSeq(x, 1, k \div 15) \o <<x[k \div 15 + 1] % 2^(k % 15)>>))

\* the number of bits of a limb
RECURSIVE bitsOf(_)
bitsOf(x) == Const(x, LAMBDA v : IF v = 0 THEN 0 ELSE 1 + bitsOf(v \div 2))

\* the number of bits of a
bnBits(a) ==
  Const(a, LAMBDA x : IF x = <<>> THEN 0 ELSE 15 * (Len(x) - 1) + bitsOf(x[Len(x)]))

bnIsOdd(a) == Const(a, LAMBDA x : x # <<>> /\ x[1] % 2 = 1)

\* the digit r \div b of a long division, for r < b * LIMB and a divisor whose
\* top limb has all its 15 bits: the quotient of the top limbs is the digit
\* or exceeds it by at most two
bnDigit(r, b) ==
  Const(limbAt(r, Len(b) + 1) * LIMB + limbAt(r, Len(b)), LAMBDA top :
    Const(IF top \div b[Len(b)] < LIMB THEN top \div b[Len(b)] ELSE LIMB - 1, LAMBDA qhat :
      IF bnCmp(bnMulSmall(b, qhat, 0), r) <= 0 THEN qhat
      ELSE IF bnCmp(bnMulSmall(b, qhat - 1, 0), r) <= 0 THEN qhat - 1
      ELSE qhat - 2))

\* one step of the long division: the limb x is brought down behind the
\* remainder of the limbs above it
bnDivModStep(above, x, b) ==
  Const(bnNorm(<<x>> \o above.r), LAMBDA r :
    Const(bnDigit(r, b), LAMBDA d :
      [q |-> bnNorm(<<d>> \o above.q), r |-> bnSub(r, bnMulSmall(b, d, 0))]))

\* long division of the limbs i and above of a by b: the quotient and the remainder
RECURSIVE bnDivModAt(_, _, _)
bnDivModAt(a, b, i) ==
  Const(i, LAMBDA k :
    IF k > Len(a) THEN [q |-> <<>>, r |-> <<>>]
    ELSE Const(bnDivModAt(a, b, k + 1), LAMBDA above : bnDivModStep(above, a[k], b)))

\* a \div b and a % b for b > 0: both are scaled so that the top limb of the
\* divisor has all its bits
bnDivMod(a, b) ==
  Const2(a, b, LAMBDA x, y :
    Const(15 - bitsOf(y[Len(y)]), LAMBDA shift :
      Const(bnDivModAt(bnShl(x, shift), bnShl(y, shift), 1), LAMBDA qr :
        [q |-> qr.q, r |-> bnShr(qr.r, shift)])))

\* the integer square root of a by Newton's iteration from an estimate x that
\* is not below it: [root, rest] with root^2 + rest = a
RECURSIVE bnSqrtFrom(_, _)
bnSqrtFrom(a, estimate) ==
  Const(estimate, LAMBDA x :
    Const(bnShr(bnAdd(x, bnDivMod(a, x).q), 1), LAMBDA next :
      IF bnCmp(next, x) >= 0 THEN [root |-> x, rest |-> bnSub(a, bnMul(x, x))]
      ELSE bnSqrtFrom(a, next)))

bnSqrt(a) ==
  Const(a, LAMBDA x :
    IF x = <<>> THEN [root |-> <<>>, rest |-> <<>>]
    ELSE bnSqrtFrom(x, bnShl(<<1>>, (bnBits(x) + 1) \div 2)))

(***************************************************************************)
(* A number is NaN, an infinity or neg * m * 2^e with a mantissa m of      *)
(* exactly 53 bits (m = 0 and e = 0 for zero).  Every operation rounds its *)
(* exact result to the nearest such number, ties to the even mantissa.     *)
(* The exponents of the planner's quantities stay far inside the range of  *)
(* binary64, so overflow, underflow and the sign of zero are not modelled. *)
(***************************************************************************)
Finite(neg, m, e) == [kind |-> "finite", neg |-> neg, m |-> m, e |-> e]
dblZero == Finite(FALSE, <<>>, 0)
dblNaN == [kind |-> "nan", neg |-> FALSE, m |-> <<>>, e |-> 0]
dblInfinity(neg) == [kind |-> "infinity", neg |-> neg, m |-> <<>>, e |-> 0]

\* n * 2^e cut to 53 bits: drop bits fall off, and the mantissa goes up by
\* one when they are more than half of its last place, or exactly half and
\* the mantissa is odd
dblCut(neg, n, e, drop) ==
  Const2(bnShr(n, drop), bnCmp(bnLow(n, drop), bnShl(<<1>>, drop - 1)), LAMBDA kept, tail :
    Const(IF tail > 0 \/ (tail = 0 /\ bnIsOdd(kept)) THEN bnAdd(kept, <<1>>) ELSE kept,
          LAMBDA m :
      IF bnBits(m) > 53 THEN Finite(neg, bnShr(m, 1), e + drop + 1)
      ELSE Finite(neg, m, e + drop)))

\* the number nearest to (-1)^neg * n * 2^e
dblRoundTo(neg, n, e) ==
  Const3(neg, n, e, LAMBDA s, x, k :
    Const(bnBits(x), LAMBDA bits :
      IF bits = 0 THEN dblZero
      ELSE IF bits <= 53 THEN Finite(s, bnShl(x, 53 - bits), k - (53 - bits))
      ELSE dblCut(s, x, k, bits - 53)))

\* the number of an integer
Dbl(i) == Const(i, LAMBDA x : dblRoundTo(x < 0, bnOfInt(IF x < 0 THEN -x ELSE x), 0))

isZero(x) == x.kind = "finite" /\ x.m = <<>>

dblNeg(x) ==
  Const(x, LAMBDA a : IF a.kind = "nan" \/ isZero(a) THEN a ELSE [a EXCEPT !.neg = ~a.neg])

\* -1, 0, 1 as |x| < |y|, |x| = |y|, |x| > |y| for finite x and y
cmpMagnitude(x, y) ==
  IF isZero(x) THEN (IF isZero(y) THEN 0 ELSE -1)
  ELSE IF isZero(y) THEN 1
  ELSE IF x.e < y.e THEN -1
  ELSE IF x.e > y.e THEN 1
  ELSE bnCmp(x.m, y.m)

\* the sum of two finite numbers other than zero: the mantissas are brought
\* to the smaller exponent and added or subtracted exactly, then rounded
addFinite(x, y) ==
  Const(IF x.e < y.e THEN x.e ELSE y.e, LAMBDA e :
    Const2(bnShl(x.m, x.e - e), bnShl(y.m, y.e - e), LAMBDA a, b :
      Const(x.neg = y.neg \/ bnCmp(a, b) >= 0, LAMBDA signOfX :
        dblRoundTo(IF signOfX THEN x.neg ELSE y.neg,
                   IF x.neg = y.neg THEN bnAdd(a, b)
                   ELSE IF signOfX THEN bnSub(a, b) ELSE bnSub(b, a),
                   e))))

dblAdd(x, y) ==
  Const2(x, y, LAMBDA a, b :
    IF a.kind = "nan" \/ b.kind = "nan" THEN dblNaN
    ELSE IF a.kind = "infinity"
    THEN (IF b.kind = "infinity" /\ a.neg # b.neg THEN dblNaN ELSE a)
    ELSE IF b.kind = "infinity" THEN b
    ELSE IF isZero(a) THEN b
    ELSE IF isZero(b) THEN a
    ELSE addFinite(a, b))

dblSub(x, y) == dblAdd(x, dblNeg(y))

dblMul(x, y) ==
  Const2(x, y, LAMBDA a, b :
    IF a.kind = "nan" \/ b.kind = "nan" THEN dblNaN
    ELSE IF a.kind = "infinity" \/ b.kind = "infinity"
    THEN (IF isZero(a) \/ isZero(b) THEN dblNaN ELSE dblInfinity(a.neg # b.neg))
    ELSE IF isZero(a) \/ isZero(b) THEN dblZero
    ELSE dblRoundTo(a.neg # b.neg, bnMul(a.m, b.m), a.e + b.e))

\* the quotient of two finite numbers other than zero: the quotient of the
\* mantissas to 57 or 58 bits, and one more bit that is set when the
\* division leaves a remainder
divFinite(x, y) ==
  Const(bnDivMod(bnShl(x.m, 57), y.m), LAMBDA qr :
    dblRoundTo(x.neg # y.neg, bnMulSmall(qr.q, 2, IF qr.r = <<>> THEN 0 ELSE 1),
               x.e - y.e - 58))

dblDiv(x, y) ==
  Const2(x, y, LAMBDA a, b :
    IF a.kind = "nan" \/ b.kind = "nan" THEN dblNaN
    ELSE IF a.kind = "infinity"
    THEN (IF b.kind = "infinity" THEN dblNaN ELSE dblInfinity(a.neg # b.neg))
    ELSE IF b.kind = "infinity" THEN dblZero
    ELSE IF isZero(b) THEN (IF isZero(a) THEN dblNaN ELSE dblInfinity(a.neg))
    ELSE IF isZero(a) THEN dblZero
    ELSE divFinite(a, b))

\* x < y (false when either is NaN)
dblLt(x, y) ==
  Const2(x, y, LAMBDA a, b :
    IF a.kind = "nan" \/ b.kind = "nan" THEN FALSE
    ELSE IF a.kind = "infinity" THEN a.neg /\ ~(b.kind = "infinity" /\ b.neg)
    ELSE IF b.kind = "infinity" THEN ~b.neg
    ELSE IF isZero(a) /\ isZero(b) THEN FALSE
    ELSE IF isZero(a) THEN ~b.neg
    ELSE IF isZero(b) THEN a.neg
    ELSE IF a.neg # b.neg THEN a.neg
    ELSE IF a.neg THEN cmpMagnitude(a, b) > 0
    ELSE cmpMagnitude(a, b) < 0)

dblGt(x, y) == dblLt(y, x)

\* Math.max and Math.min of two numbers: NaN when either is NaN
mathMax(x, y) ==
  Const2(x, y, LAMBDA a, b :
    IF a.kind = "nan" \/ b.kind = "nan" THEN dblNaN ELSE IF dblLt(a, b) THEN b ELSE a)

mathMin(x, y) ==
  Const2(x, y, LAMBDA a, b :
    IF a.kind = "nan" \/ b.kind = "nan" THEN dblNaN ELSE IF dblLt(b, a) THEN b ELSE a)

\* Math.round: the nearest integer, a tie going towards +Infinity
mathRound(x) ==
  Const(x, LAMBDA a :
    IF a.kind # "finite" \/ isZero(a) \/ a.e >= 0 THEN a
    ELSE Const2(bnShr(a.m, -a.e), bnCmp(bnLow(a.m, -a.e), bnShl(<<1>>, -a.e - 1)),
                LAMBDA whole, frac :
           dblRoundTo(a.neg,
                      IF (IF a.neg THEN frac > 0 ELSE frac >= 0) THEN bnAdd(whole, <<1>>)
                      ELSE whole,
                      0)))

\* the root of a finite number above zero: the root of the mantissa scaled
\* to at least 110 bits, and one more bit that is set when the root is inexact
sqrtFinite(x, shift) ==
  Const(bnSqrt(bnShl(x.m, shift)), LAMBDA sq :
    dblRoundTo(FALSE, bnMulSmall(sq.root, 2, IF sq.rest = <<>> THEN 0 ELSE 1),
               (x.e - shift) \div 2 - 1))

\* Math.sqrt, correctly rounded
mathSqrt(x) ==
  Const(x, LAMBDA a :
    IF a.kind = "nan" THEN dblNaN
    ELSE IF isZero(a) THEN a
    ELSE IF a.neg THEN dblNaN
    ELSE IF a.kind = "infinity" THEN a
    ELSE sqrtFinite(a, IF a.e % 2 = 0 THEN 58 ELSE 59))

\* a decimal literal n/d of the source text
Dec(n, d) == dblDiv(Dbl(n), Dbl(d))

\* x <= y (false when either is NaN)
dblLe(x, y) == Const2(x, y, LAMBDA a, b : a.kind # "nan" /\ b.kind # "nan" /\ ~dblLt(b, a))

\* a || b: b when a is 0 or NaN
jsOr(x, y) == Const(x, LAMBDA a : IF a.kind = "nan" \/ isZero(a) THEN y ELSE a)

\* the whole number a finite number below LIMB^2 with no fraction stands for
wholeOf(x) ==
  Const(IF isZero(x) THEN <<>> ELSE bnShr(x.m, -x.e), LAMBDA a : limbAt(a, 1) + LIMB * limbAt(a, 2))

\* the number of zero bits at the low end of a limb or of a natural above 0
RECURSIVE lowZerosOf(_)
lowZerosOf(v) == Const(v, LAMBDA x : IF x % 2 = 1 THEN 0 ELSE 1 + lowZerosOf(x \div 2))

bnLowZeros(a) ==
  Const(a, LAMBDA x :
    Const(CHOOSE i \in 1..Len(x) : x[i] # 0 /\ \A j \in 1..(i - 1) : x[j] = 0, LAMBDA i :
      15 * (i - 1) + lowZerosOf(x[i])))

\* a product of a power kept to its leading 90 bits: m * 2^e is at most the
\* power and (m + cuts) * 2^e is above it unless cuts = 0, when m * 2^e is
\* the power
bnKeep(product, e, cuts) ==
  Const(bnBits(product), LAMBDA bits :
    IF bits <= 90 THEN [m |-> product, e |-> e, cuts |-> cuts]
    ELSE [m |-> bnShr(product, bits - 90), e |-> e + bits - 90, cuts |-> cuts + 1])

\* a^n of a natural a for n up to 600, by squaring.  A product with a
\* mantissa of up to 53 bits at most doubles the error of the power it
\* multiplies, and a square at most quadruples it and adds a unit.
RECURSIVE bnPow(_, _)
bnPow(a, n) ==
  Const2(a, n, LAMBDA x, k :
    IF k = 0 THEN [m |-> <<1>>, e |-> 0, cuts |-> 0]
    ELSE IF k % 2 = 1
    THEN Const(bnPow(x, k - 1), LAMBDA p : bnKeep(bnMul(p.m, x), p.e, 2 * p.cuts))
    ELSE Const(bnPow(x, k \div 2), LAMBDA p :
           bnKeep(bnMul(p.m, p.m), 2 * p.e, IF p.cuts = 0 THEN 0 ELSE 4 * p.cuts + 1)))

\* the numbers next to a power of more than 53 bits, which is no number
\* itself because it is odd: the one below it and the one above it
powNeighbours(neg, p) ==
  Const(bnBits(p.m) - 53, LAMBDA drop :
    Const2(bnShr(p.m, drop), bnShr(bnAdd(p.m, bnOfInt(p.cuts)), drop), LAMBDA below, top :
      {dblRoundTo(neg, below, p.e + drop), dblRoundTo(neg, bnAdd(top, <<1>>), p.e + drop)}
        \cup {dblRoundTo(neg, top, p.e + drop)}))

\* the power of a finite number other than zero, from the odd part of its
\* mantissa
powFinite(x, n) ==
  Const(bnLowZeros(x.m), LAMBDA zeros :
    Const2(x.neg /\ n % 2 = 1, bnPow(bnShr(x.m, zeros), n), LAMBDA neg, p :
      IF p.cuts = 0 /\ bnBits(p.m) <= 53 THEN {dblRoundTo(neg, p.m, p.e + (x.e + zeros) * n)}
      ELSE powNeighbours(neg, [p EXCEPT !.e = p.e + (x.e + zeros) * n])))

\* Math.pow(x, n) for a whole exponent n >= 1: the values an implementation
\* may return.  Math.pow is an implementation-approximated function whose
\* error stays below one unit in the last place: a power that is a number
\* is returned as it is, any other power as one of its two neighbours.
mathPow(x, n) ==
  Const(x, LAMBDA a :
    IF a.kind = "nan" THEN {dblNaN}
    ELSE IF a.kind = "infinity" THEN {dblInfinity(a.neg /\ n % 2 = 1)}
    ELSE IF isZero(a) THEN {dblZero}
    ELSE powFinite(a, n))

(***************************************************************************)
(* Dates.  A time value is a number of hours since the epoch (nothing in   *)
(* the engine looks below the hour).  MakeDay is ECMAScript's: a month     *)
(* index outside 0..11 carries into the year and a day of the month        *)
(* beyond the month's length runs on into the following month.             *)
(***************************************************************************)
\* ECMAScript DayFromYear(y): the day number of 1 January of year y
DayFromYear(y) ==
  365 * (y - 1970) + ((y - 1969) \div 4) - ((y - 1901) \div 100) + ((y - 1601) \div 400)

InLeapYear(y) == (y % 4 = 0 /\ y % 100 # 0) \/ y % 400 = 0

DaysInMonth(y, m) ==
  IF m = 1 THEN (IF InLeapYear(y) THEN 29 ELSE 28)
  ELSE IF m \in {3, 5, 8, 10} THEN 30 ELSE 31

RECURSIVE DaysBeforeMonth(_, _)
DaysBeforeMonth(y, m) ==
  IF m = 0 THEN 0 ELSE DaysBeforeMonth(y, m - 1) + DaysInMonth(y, m - 1)

\* ECMAScript MakeDay(year, month, date), month being a 0-based index of any sign
MakeDay(year, month, date) ==
  LET ym == year + (month \div 12)
      mn == month % 12
  IN  DayFromYear(ym) + DaysBeforeMonth(ym, mn) + date - 1

\* new Date(year, monthIndex, day): midnight local time, as a UTC time value
localDate(year, month, date, zone) == MakeDay(year, month, date) * 24 + zone

\* new Date("YYYY-MM-DD"): a date-only string is midnight UTC
parseDate(str) == MakeDay(str.year, str.month - 1, str.day) * 24

(***************************************************************************)
(* Metrics engine                                                          *)
(***************************************************************************)
\* mutant: the amounts are summed with their signs
RECURSIVE sumAbsAmount_Signed(_)
sumAbsAmount_Signed(ts) ==
  IF ts = <<>> THEN 0 ELSE Head(ts).amount + sumAbsAmount_Signed(Tail(ts))

\* .reduce((sum, t) => sum + Math.abs(t.amount), 0)
RECURSIVE sumAbsAmount(_)
sumAbsAmount(ts) ==
  IF ts = <<>> THEN 0 ELSE Abs(Head(ts).amount) + sumAbsAmount(Tail(ts))

\* const threeMonthsAgo = new Date(now.getFullYear(), now.getMonth() - 3, now.getDate())
threeMonthsAgo(clock, zone) == localDate(clock.year, clock.month - 3, clock.date, zone)

\* transactions.filter((t) => new Date(t.transaction_date) >= threeMonthsAgo)
recentTransactions(ts, clock, zone) ==
  SelectSeq(ts, LAMBDA t : parseDate(t.transaction_date) >= threeMonthsAgo(clock, zone))

ofType(ts, type) == SelectSeq(ts, LAMBDA t : t.transaction_type = type)

\* mutant: every expense that mentions a Debt keyword counts as a debt payment
debtTransactions_ByKeyword(ts) ==
  SelectSeq(ofType(ts, "expense"),
            LAMBDA t : someKeyword(TRANSACTION_CATEGORIES[9].keywords, toLowerCase(t.description)))

\* the debt filter: expenses whose description categorizes as "Debt"
debtTransactions(ts) ==
  SelectSeq(ofType(ts, "expense"), LAMBDA t : categorizeTransaction(t.description) = "Debt")

savingsRateOf(totalIncome, netIncome) ==
  IF totalIncome > 0 THEN jsMul(jsDiv(Num(netIncome), Num(totalIncome)), Num(100)) ELSE Num(0)

\* mutant: the division is not guarded
emergencyFundMonthsOf_Unguarded(totalExpenses, balance) ==
  jsDiv(Num(balance), jsDiv(Num(totalExpenses), Num(3)))

emergencyFundMonthsOf(totalExpenses, balance) ==
  LET monthlyExpenses == jsDiv(Num(totalExpenses), Num(3))
  IN  IF jsGt(monthlyExpenses, Num(0)) THEN jsDiv(Num(balance), monthlyExpenses) ELSE Num(0)

debtToIncomeRatioOf(totalIncome, debtPayments) ==
  LET monthlyIncome == jsDiv(Num(totalIncome), Num(3))
  IN  IF jsGt(monthlyIncome, Num(0))
      THEN jsMul(jsDiv(jsDiv(Num(debtPayments), Num(3)), monthlyIncome), Num(100))
      ELSE Num(0)

\* the object calculateFinancialMetrics returns, from the four sums it is computed from
metricsOf(totalIncome, totalExpenses, debtPayments, balance) ==
  LET netIncome == totalIncome - totalExpenses
  IN  [ totalIncome           |-> totalIncome,
        totalExpenses         |-> totalExpenses,
        netIncome             |-> netIncome,
        savingsRate           |-> savingsRateOf(totalIncome, netIncome),
        debtToIncomeRatio     |-> debtToIncomeRatioOf(totalIncome, debtPayments),
        emergencyFundMonths   |-> emergencyFundMonthsOf(totalExpenses, balance),
        monthlyBudgetVariance |-> 0 ]

\* calculateFinancialMetrics(transactions, emergencyFundBalance), reading the
\* clock (new Date()) in a server whose time zone is `zone`
calculateFinancialMetrics(ts, balance, clock, zone) ==
  LET recent == recentTransactions(ts, clock, zone)
  IN  metricsOf(sumAbsAmount(ofType(recent, "income")),
                sumAbsAmount(ofType(recent, "expense")),
                sumAbsAmount(debtTransactions(recent)),
                balance)

(***************************************************************************)
(* Spending aggregator                                                     *)
(***************************************************************************)
\* const oneMonthAgo = new Date(now.getFullYear(), now.getMonth() - 1, now.getDate())
oneMonthAgo(clock, zone) == localDate(clock.year, clock.month - 1, clock.date, zone)

\* transactions.filter((t) => t.transaction_type === "expense" && new Date(...) >= oneMonthAgo)
expenseTransactions(ts, clock, zone) ==
  SelectSeq(ts, LAMBDA t : /\ t.transaction_type = "expense"
                           /\ parseDate(t.transaction_date) >= oneMonthAgo(clock, zone))

\* mutant: the amount is added with its sign
addToBucket_Signed(categorySpending, transaction) ==
  LET cat    == categorizeTransaction(transaction.description)
      bucket == IF cat \in DOMAIN categorySpending
                THEN categorySpending[cat]
                ELSE [amount |-> 0, percentage |-> Num(0), transactions |-> 0]
  IN  [c \in DOMAIN categorySpending \cup {cat} |->
         IF c = cat
         THEN [bucket EXCEPT !.amount = @ + transaction.amount, !.transactions = @ + 1]
         ELSE categorySpending[c]]

\* one step of the forEach: the bucket of the transaction's category is created
\* if absent, then its amount and its count grow
addToBucket(categorySpending, transaction) ==
  LET cat    == categorizeTransaction(transaction.description)
      amount == Abs(transaction.amount)
      bucket == IF cat \in DOMAIN categorySpending
                THEN categorySpending[cat]
                ELSE [amount |-> 0, percentage |-> Num(0), transactions |-> 0]
  IN  [c \in DOMAIN categorySpending \cup {cat} |->
         IF c = cat
         THEN [bucket EXCEPT !.amount = @ + amount, !.transactions = @ + 1]
         ELSE categorySpending[c]]

RECURSIVE accumulate(_, _)
accumulate(ts, categorySpending) ==
  IF ts = <<>> THEN categorySpending
  ELSE accumulate(Tail(ts), addToBucket(categorySpending, Head(ts)))

percentageOf(amount, totalExpenses) ==
  IF totalExpenses > 0 THEN jsMul(jsDiv(Num(amount), Num(totalExpenses)), Num(100)) ELSE Num(0)

\* mutant: the shares are taken of all expenses, whatever their date
analyzeSpendingByCategory_TotalOfAllExpenses(ts, clock, zone) ==
  LET expenses         == expenseTransactions(ts, clock, zone)
      totalExpenses    == sumAbsAmount(ofType(ts, "expense"))
      categorySpending == accumulate(expenses, <<>>)
  IN  [c \in DOMAIN categorySpending |->
         [categorySpending[c] EXCEPT !.percentage = percentageOf(categorySpending[c].amount, totalExpenses)]]

\* analyzeSpendingByCategory(transactions): an object keyed by category name
analyzeSpendingByCategory(ts, clock, zone) ==
  LET expenses         == expenseTransactions(ts, clock, zone)
      totalExpenses    == sumAbsAmount(expenses)
      categorySpending == accumulate(expenses, <<>>)
  IN  [c \in DOMAIN categorySpending |->
         [categorySpending[c] EXCEPT !.percentage = percentageOf(categorySpending[c].amount, totalExpenses)]]

(***************************************************************************)
(* Insight generator.  An insight is modelled by its type, title and       *)
(* priority; the description and recommendation texts are not modelled.    *)
(***************************************************************************)
Insight(type, title, priority) == [type |-> type, title |-> title, priority |-> priority]

\* mutant: the boundary values 10 and 20 fall in the lower band
savingsRateInsights_BoundaryBelow(m) ==
  IF ~jsGt(m.savingsRate, Num(10)) THEN <<Insight("critical", "Low Savings Rate", "high")>>
  ELSE IF ~jsGt(m.savingsRate, Num(20))
  THEN <<Insight("warning", "Moderate Savings Rate", "medium")>>
  ELSE <<Insight("positive", "Excellent Savings Rate", "low")>>

\* mutant: a healthy savings rate is passed over in silence
savingsRateInsights_SilentWhenHealthy(m) ==
  IF jsLt(m.savingsRate, Num(10)) THEN <<Insight("critical", "Low Savings Rate", "high")>>
  ELSE IF jsLt(m.savingsRate, Num(20)) THEN <<Insight("warning", "Moderate Savings Rate", "medium")>>
  ELSE <<>>

savingsRateInsights(m) ==
  IF jsLt(m.savingsRate, Num(10)) THEN <<Insight("critical", "Low Savings Rate", "high")>>
  ELSE IF jsLt(m.savingsRate, Num(20)) THEN <<Insight("warning", "Moderate Savings Rate", "medium")>>
  ELSE <<Insight("positive", "Excellent Savings Rate", "low")>>

\* mutant: a fund of exactly 3 months is insufficient, one of exactly 6 needs growth
emergencyFundInsights_BoundaryBelow(m) ==
  IF ~jsGt(m.emergencyFundMonths, Num(3))
  THEN <<Insight("critical", "Insufficient Emergency Fund", "high")>>
  ELSE IF ~jsGt(m.emergencyFundMonths, Num(6))
  THEN <<Insight("warning", "Emergency Fund Needs Growth", "medium")>>
  ELSE <<>>

emergencyFundInsights(m) ==
  IF jsLt(m.emergencyFundMonths, Num(3))
  THEN <<Insight("critical", "Insufficient Emergency Fund", "high")>>
  ELSE IF jsLt(m.emergencyFundMonths, Num(6))
  THEN <<Insight("warning", "Emergency Fund Needs Growth", "medium")>>
  ELSE <<>>

\* mutant: a ratio of exactly 40 is critical, one of exactly 20 a warning
debtToIncomeInsights_BoundaryAbove(m) ==
  IF ~jsLt(m.debtToIncomeRatio, Num(40))
  THEN <<Insight("critical", "High Debt-to-Income Ratio", "high")>>
  ELSE IF ~jsLt(m.debtToIncomeRatio, Num(20))
  THEN <<Insight("warning", "Moderate Debt Load", "medium")>>
  ELSE <<>>

debtToIncomeInsights(m) ==
  IF jsGt(m.debtToIncomeRatio, Num(40))
  THEN <<Insight("critical", "High Debt-to-Income Ratio", "high")>>
  ELSE IF jsGt(m.debtToIncomeRatio, Num(20))
  THEN <<Insight("warning", "Moderate Debt Load", "medium")>>
  ELSE <<>>

\* const housingSpending = spendingByCategory["Housing"]; if (housingSpending && ... > 30)
housingInsights(spendingByCategory) ==
  IF "Housing" \in DOMAIN spendingByCategory
     /\ jsGt(spendingByCategory["Housing"].percentage, Num(30))
  THEN <<Insight("warning", "High Housing Costs", "medium")>>
  ELSE <<>>

foodInsights(spendingByCategory) ==
  IF "Food" \in DOMAIN spendingByCategory
     /\ jsGt(spendingByCategory["Food"].percentage, Num(15))
  THEN <<Insight("warning", "High Food Spending", "low")>>
  ELSE <<>>

\* const priorityOrder = { high: 3, medium: 2, low: 1 }
priorityOrder(priority) ==
  IF priority = "high" THEN 3 ELSE IF priority = "medium" THEN 2 ELSE 1

\* the comparator handed to sort: negative when a goes first, positive when b does
comparePriority(a, b) == priorityOrder(b.priority) - priorityOrder(a.priority)

\* x is put behind every element that does not compare after it
RECURSIVE insertStable(_, _)
insertStable(sorted, x) ==
  IF sorted = <<>> THEN <<x>>
  ELSE IF comparePriority(Head(sorted), x) > 0 THEN <<x>> \o sorted
  ELSE <<Head(sorted)>> \o insertStable(Tail(sorted), x)

\* mutant: x is put in front of the elements that compare equal to it
RECURSIVE insertUnstable(_, _)
insertUnstable(sorted, x) ==
  IF sorted = <<>> THEN <<x>>
  ELSE IF comparePriority(Head(sorted), x) >= 0 THEN <<x>> \o sorted
  ELSE <<Head(sorted)>> \o insertUnstable(Tail(sorted), x)

\* mutant: the sort does not keep the order of equal elements
RECURSIVE sortInsights_Unstable(_)
sortInsights_Unstable(list) ==
  IF list = <<>> THEN <<>>
  ELSE insertUnstable(sortInsights_Unstable(SubSeq(list, 1, Len(list) - 1)), list[Len(list)])

\* Array.prototype.sort with a comparator: a stable sort (ECMAScript 2019)
RECURSIVE sortInsights(_)
sortInsights(list) ==
  IF list = <<>> THEN <<>>
  ELSE insertStable(sortInsights(SubSeq(list, 1, Len(list) - 1)), list[Len(list)])

\* mutant: the food rule is an else-branch of the housing rule
pushedInsights_FoodElseHousing(m, spendingByCategory) ==
  savingsRateInsights(m) \o emergencyFundInsights(m) \o debtToIncomeInsights(m)
    \o (IF housingInsights(spendingByCategory) # <<>>
        THEN housingInsights(spendingByCategory)
        ELSE foodInsights(spendingByCategory))

\* the insights in the order the rules push them
pushedInsights(m, spendingByCategory) ==
  savingsRateInsights(m) \o emergencyFundInsights(m) \o debtToIncomeInsights(m)
    \o housingInsights(spendingByCategory) \o foodInsights(spendingByCategory)

generateFinancialInsights(m, spendingByCategory) ==
  sortInsights(pushedInsights(m, spendingByCategory))

(***************************************************************************)
(* Investment planner: allocations                                         *)
(***************************************************************************)
\* the decimal literals of the source text
Lit_0_6 == Dec(6, 10)
Lit_0_3 == Dec(3, 10)
Lit_0_1 == Dec(1, 10)
Lit_0_7 == Dec(7, 10)
Lit_1_3 == Dec(13, 10)
Lit_0_4 == Dec(4, 10)
Lit_0_04 == Dec(4, 100)
Lit_0_08 == Dec(8, 100)
Lit_0_06 == Dec(6, 100)
Lit_0_02 == Dec(2, 100)
Lit_0_99 == Dec(99, 100)

AssetAllocation(stocks, bonds, realEstate, commodities, cash) ==
  [stocks |-> stocks, bonds |-> bonds, realEstate |-> realEstate,
   commodities |-> commodities, cash |-> cash]

\* an allocation written with integer literals
Literal(stocks, bonds, realEstate, commodities, cash) ==
  AssetAllocation(Dbl(stocks), Dbl(bonds), Dbl(realEstate), Dbl(commodities), Dbl(cash))

\* the switch with conservative's constants in its default branch
stockPercentage_DefaultConservative(age, riskTolerance) ==
  IF riskTolerance = "moderate" THEN mathMax(dblSub(Dbl(110), age), Dbl(30))
  ELSE IF riskTolerance = "aggressive" THEN mathMax(dblSub(Dbl(120), age), Dbl(40))
  ELSE mathMax(dblSub(Dbl(100), age), Dbl(20))

\* the switch on riskTolerance; its default branch has moderate's constants
stockPercentage(age, riskTolerance) ==
  IF riskTolerance = "conservative" THEN mathMax(dblSub(Dbl(100), age), Dbl(20))
  ELSE IF riskTolerance = "moderate" THEN mathMax(dblSub(Dbl(110), age), Dbl(30))
  ELSE IF riskTolerance = "aggressive" THEN mathMax(dblSub(Dbl(120), age), Dbl(40))
  ELSE mathMax(dblSub(Dbl(110), age), Dbl(30))

\* mutant: the cash share is a tenth of the remainder, without the floor of 5
calculateAgeBasedAllocation_CashUnfloored(age, riskTolerance) ==
  Const(stockPercentage(age, riskTolerance), LAMBDA stocks :
    Const(mathMin(dblSub(Dbl(100), stocks), Dbl(60)), LAMBDA bondPercentage :
      Const(dblSub(dblSub(Dbl(100), stocks), bondPercentage), LAMBDA remainingPercentage :
        AssetAllocation(stocks, bondPercentage,
                        mathMin(dblMul(remainingPercentage, Lit_0_6), Dbl(15)),
                        mathMin(dblMul(remainingPercentage, Lit_0_3), Dbl(10)),
                        dblMul(remainingPercentage, Lit_0_1)))))

calculateAgeBasedAllocation(age, riskTolerance) ==
  Const(stockPercentage(age, riskTolerance), LAMBDA stocks :
    Const(mathMin(dblSub(Dbl(100), stocks), Dbl(60)), LAMBDA bondPercentage :
      Const(dblSub(dblSub(Dbl(100), stocks), bondPercentage), LAMBDA remainingPercentage :
        AssetAllocation(stocks, bondPercentage,
                        mathMin(dblMul(remainingPercentage, Lit_0_6), Dbl(15)),
                        mathMin(dblMul(remainingPercentage, Lit_0_3), Dbl(10)),
                        mathMax(dblMul(remainingPercentage, Lit_0_1), Dbl(5))))))

\* the base allocation of the time horizon's bucket
baseAllocation(timeHorizon) ==
  IF dblLt(timeHorizon, Dbl(3)) THEN Literal(30, 50, 5, 5, 10)
  ELSE IF dblLt(timeHorizon, Dbl(10)) THEN Literal(50, 35, 8, 5, 2)
  ELSE Literal(70, 20, 7, 2, 1)

\* { conservative: 0.7, moderate: 1.0, aggressive: 1.3 }[riskTolerance]: the
\* lookup of any other string is undefined, which arithmetic turns into NaN
riskMultiplier(riskTolerance) ==
  IF riskTolerance = "conservative" THEN Lit_0_7
  ELSE IF riskTolerance = "moderate" THEN Dbl(1)
  ELSE IF riskTolerance = "aggressive" THEN Lit_1_3
  ELSE dblNaN

stockAdjustment(base, riskTolerance) ==
  dblMul(dblSub(base.stocks, Dbl(50)), dblSub(riskMultiplier(riskTolerance), Dbl(1)))

\* the adjustment with the bonds absorbing the whole shift of the stocks
adjustForRisk_BondsAbsorbAll(base, riskTolerance) ==
  Const(base, LAMBDA weights :
    Const(stockAdjustment(weights, riskTolerance), LAMBDA shift :
      [weights EXCEPT
         !.stocks = mathMax(mathMin(dblAdd(weights.stocks, shift), Dbl(90)), Dbl(10)),
         !.bonds = mathMax(mathMin(dblSub(weights.bonds, shift), Dbl(80)), Dbl(5))]))

adjustForRisk(base, riskTolerance) ==
  Const(base, LAMBDA weights :
    Const(stockAdjustment(weights, riskTolerance), LAMBDA shift :
      [weights EXCEPT
         !.stocks = mathMax(mathMin(dblAdd(weights.stocks, shift), Dbl(90)), Dbl(10)),
         !.bonds = mathMax(mathMin(dblSub(weights.bonds, dblMul(shift, Lit_0_7)),
                                   Dbl(80)),
                           Dbl(5))]))

\* the keys of an allocation in the order of Object.keys and Object.values
keys == <<"stocks", "bonds", "realEstate", "commodities", "cash">>

\* the sum after the first n values of the reduce
RECURSIVE sumAfter(_, _)
sumAfter(a, n) ==
  IF n = 0 THEN Dbl(0) ELSE dblAdd(sumAfter(a, n - 1), a[keys[n]])

\* Object.values(allocation).reduce((sum, val) => sum + val, 0)
totalOf(a) == Const(a, LAMBDA v : sumAfter(v, Len(keys)))

\* every component becomes (component / total) * 100
normalize(a) ==
  Const(a, LAMBDA adjusted :
    Const(totalOf(adjusted), LAMBDA total :
      [key \in DOMAIN adjusted |-> dblMul(dblDiv(adjusted[key], total), Dbl(100))]))

\* goalType is not read
calculateGoalBasedAllocation(timeHorizon, riskTolerance, goalType) ==
  normalize(adjustForRisk(baseAllocation(timeHorizon), riskTolerance))

(***************************************************************************)
(* Investment planner: recommendation.  The description and the reasoning  *)
(* texts are not modelled.                                                 *)
(***************************************************************************)
\* the blend with the two weights exchanged
blend_WeightsExchanged(goalBased, ageBased) ==
  mathRound(dblAdd(dblMul(goalBased, Lit_0_4), dblMul(ageBased, Lit_0_6)))

\* Math.round(goalBased * 0.6 + ageBased * 0.4)
blend(goalBased, ageBased) ==
  mathRound(dblAdd(dblMul(goalBased, Lit_0_6), dblMul(ageBased, Lit_0_4)))

blendAllocations(goalBased, ageBased) ==
  Const2(goalBased, ageBased, LAMBDA g, a :
    AssetAllocation(blend(g.stocks, a.stocks), blend(g.bonds, a.bonds),
                    blend(g.realEstate, a.realEstate),
                    blend(g.commodities, a.commodities), blend(g.cash, a.cash)))

expectedReturnOf(a) ==
  Const(a, LAMBDA v :
    dblDiv(dblAdd(dblAdd(dblAdd(dblAdd(dblMul(v.stocks, Lit_0_1),
                                       dblMul(v.bonds, Lit_0_04)),
                                dblMul(v.realEstate, Lit_0_08)),
                         dblMul(v.commodities, Lit_0_06)),
                  dblMul(v.cash, Lit_0_02)),
           Dbl(100)))

riskLevelOfTolerance(riskTolerance) ==
  IF riskTolerance = "aggressive" THEN "High"
  ELSE IF riskTolerance = "moderate" THEN "Medium"
  ELSE "Low"

\* profile.investmentGoals[0] || "general"
firstGoal(investmentGoals) ==
  IF investmentGoals = <<>> THEN "general" ELSE investmentGoals[1]

generateInvestmentRecommendation(p) ==
  Const2(calculateAgeBasedAllocation(Dbl(p.currentAge), p.riskTolerance),
         calculateGoalBasedAllocation(Dbl(p.timeHorizon), p.riskTolerance,
                                      firstGoal(p.investmentGoals)),
         LAMBDA ageBased, goalBased :
    Const(blendAllocations(goalBased, ageBased), LAMBDA blended :
      [allocation |-> blended,
       expectedReturn |-> expectedReturnOf(blended),
       riskLevel |-> riskLevelOfTolerance(p.riskTolerance)]))

(***************************************************************************)
(* Investment planner: portfolio performance                               *)
(***************************************************************************)
\* the three running totals after the first n holdings of the forEach
RECURSIVE totalsAfter(_, _)
totalsAfter(holdings, n) ==
  IF n = 0 THEN [totalValue |-> Dbl(0), totalCost |-> Dbl(0), dayChange |-> Dbl(0)]
  ELSE Const2(totalsAfter(holdings, n - 1), holdings[n], LAMBDA before, investment :
         LET currentValue == dblMul(investment.shares, investment.current_price)
             costBasis == dblMul(investment.shares, investment.purchase_price)
             previousPrice == dblMul(investment.current_price, Lit_0_99)
         IN [totalValue |-> dblAdd(before.totalValue, currentValue),
             totalCost |-> dblAdd(before.totalCost, costBasis),
             dayChange |-> dblAdd(before.dayChange,
                                  dblMul(investment.shares,
                                         dblSub(investment.current_price, previousPrice)))])

\* the number of holdings, a symbol counted once for every lot of it
uniqueSymbols_CountsLots(holdings) == Len(holdings)

\* new Set(investments.map((inv) => inv.symbol)).size
uniqueSymbols(holdings) == Cardinality({holdings[i].symbol : i \in DOMAIN holdings})

calculatePortfolioPerformance(holdings) ==
  Const(totalsAfter(holdings, Len(holdings)), LAMBDA totals :
    Const(dblSub(totals.totalValue, totals.totalCost), LAMBDA totalGain :
      [totalValue |-> totals.totalValue,
       totalGain |-> totalGain,
       totalGainPercentage |->
         IF dblGt(totals.totalCost, Dbl(0))
         THEN dblMul(dblDiv(totalGain, totals.totalCost), Dbl(100)) ELSE Dbl(0),
       dayChange |-> totals.dayChange,
       dayChangePercentage |->
         IF dblGt(totals.totalValue, Dbl(0))
         THEN dblMul(dblDiv(totals.dayChange, totals.totalValue), Dbl(100)) ELSE Dbl(0),
       diversificationScore |->
         mathMin(dblMul(dblDiv(Dbl(uniqueSymbols(holdings)), Dbl(10)), Dbl(100)),
                 Dbl(100))]))

(***************************************************************************)
(* Investment planner: portfolio risk.  The recommendation texts are not   *)
(* modelled.                                                               *)
(***************************************************************************)
\* historical volatility estimates (standard deviation)
volatilities ==
  [stocks |-> Dec(16, 100), bonds |-> Lit_0_04, realEstate |-> Dec(12, 100),
   commodities |-> Dec(2, 10), cash |-> Dec(1, 100)]

\* Math.pow(x, 2)
square(x) == Const(x, LAMBDA v : dblMul(v, v))

portfolioVolatility(a) ==
  Const(a, LAMBDA v :
    LET term(component, volatility) ==
          square(dblMul(dblDiv(component, Dbl(100)), volatility))
    IN mathSqrt(dblAdd(dblAdd(dblAdd(dblAdd(term(v.stocks, volatilities.stocks),
                                            term(v.bonds, volatilities.bonds)),
                                     term(v.realEstate, volatilities.realEstate)),
                              term(v.commodities, volatilities.commodities)),
                       term(v.cash, volatilities.cash))))

\* the labels with the scores 30 and 60 counted to the lower label
riskLevelOf_InclusiveBounds(riskScore) ==
  IF ~dblGt(riskScore, Dbl(30)) THEN "Low"
  ELSE IF ~dblGt(riskScore, Dbl(60)) THEN "Moderate"
  ELSE "High"

riskLevelOf(riskScore) ==
  IF dblLt(riskScore, Dbl(30)) THEN "Low"
  ELSE IF dblLt(riskScore, Dbl(60)) THEN "Moderate"
  ELSE "High"

assessPortfolioRisk(a) ==
  Const(portfolioVolatility(a), LAMBDA volatility :
    Const(mathMin(dblMul(volatility, Dbl(500)), Dbl(100)), LAMBDA riskScore :
      [riskScore |-> riskScore, volatility |-> volatility,
       riskLevel |-> riskLevelOf(riskScore)]))

(***************************************************************************)
(* Investment planner: goals.  Math.pow has more than one admissible       *)
(* result, so calculateMonthlyContributionNeeded is the set of the values  *)
(* the call may return.  The exponent of Math.pow is a whole number of     *)
(* months; fractions of a month are not modelled.                          *)
(***************************************************************************)
\* mutant: the division by the annuity factor has no fallback
annuityFactor_Unguarded(compounding, monthlyReturn, totalMonths) ==
  dblDiv(dblSub(compounding, Dbl(1)), monthlyReturn)

\* (Math.pow(1 + monthlyReturn, totalMonths) - 1) / monthlyReturn || totalMonths
annuityFactor(compounding, monthlyReturn, totalMonths) ==
  jsOr(dblDiv(dblSub(compounding, Dbl(1)), monthlyReturn), totalMonths)

\* the function from line 239 on, compounding being the value of Math.pow
contributionAfter(currentAmount, targetAmount, monthlyReturn, totalMonths, compounding) ==
  Const(dblSub(targetAmount, dblMul(currentAmount, compounding)), LAMBDA amountNeeded :
    IF dblLe(amountNeeded, Dbl(0)) THEN Dbl(0)
    ELSE mathMax(dblDiv(amountNeeded, annuityFactor(compounding, monthlyReturn, totalMonths)),
                 Dbl(0)))

calculateMonthlyContributionNeeded(currentAmount, targetAmount, yearsToGoal, expectedReturn) ==
  IF dblLe(yearsToGoal, Dbl(0)) THEN {dblSub(targetAmount, currentAmount)}
  ELSE Const2(dblDiv(expectedReturn, Dbl(12)), dblMul(yearsToGoal, Dbl(12)),
              LAMBDA monthlyReturn, totalMonths :
         {contributionAfter(currentAmount, targetAmount, monthlyReturn, totalMonths, compounding) :
            compounding \in mathPow(dblAdd(Dbl(1), monthlyReturn), wholeOf(totalMonths))})

\* const maxMonths = 50 * 12
maxMonths == 50 * 12

\* the condition of the while loop
stillShort(amount, targetAmount, months) == dblLt(amount, targetAmount) /\ months < maxMonths

\* the body of the while loop: a month of return and a contribution
monthLater(amount, monthlyReturn, monthlyContribution) ==
  dblAdd(dblMul(amount, dblAdd(Dbl(1), monthlyReturn)), monthlyContribution)

\* mutant: a goal reached in the last month of the 50 years counts as on track
onTrack_CapIncluded(months) == months <= maxMonths

onTrack(months) == months < maxMonths

\* the object projectInvestmentGoal returns
projected(amount, months) ==
  [projectedAmount |-> amount,
   yearsToTarget   |-> dblDiv(Dbl(months), Dbl(12)),
   onTrack         |-> onTrack(months)]

(***************************************************************************)
(* The chat page and the two routes it posts to.  A handler of the page    *)
(* reads the state of the render it was created in: a state setter changes *)
(* what the next render sees, not what a handler already running sees.     *)
(* Conversation ids and message contents are the only fields modelled.     *)
(***************************************************************************)
Null == "null"
NoRequest == [path |-> "none"]
NoResponse == [status |-> -1]
NoText == <<>>

\* the ids the database gives to new conversations, in turn
ConversationIds == <<"c1", "c2", "c3", "c4">>

Message(role, content) == [role |-> role, content |-> content]

\* String.prototype.trim, on the blank
trim(content) ==
  LET inked == {i \in 1..Len(content) : content[i] # " "}
  IN  IF inked = {} THEN <<>>
      ELSE SubSeq(content, CHOOSE i \in inked : \A j \in inked : i <= j,
                  CHOOSE i \in inked : \A j \in inked : j <= i)

\* useState([]), useState(null), useState([]), useState(""), useState(false)
NewPage ==
  [conversations |-> <<>>, currentConversation |-> Null, messages |-> <<>>,
   inputMessage |-> <<>>, isLoading |-> FALSE]

NothingPending == [pc |-> "idle", closure |-> NewPage, thenSend |-> FALSE]

HandlerIdle == [pc |-> "idle", user |-> FALSE, text |-> NoText, inserted |-> <<>>]

\* sendMessage(content), run by a handler that closed over the render
\* `closure` when the state of the page is `current`: the page, the request
\* and the position of the handler afterwards
sendMessage(closure, content, current, thenSend) ==
  IF trim(content) = <<>>
  THEN [page |-> current, request |-> NoRequest, pending |-> NothingPending]
  ELSE [page    |-> [current EXCEPT !.messages = Append(@, Message("user", content)),
                                    !.inputMessage = <<>>,
                                    !.isLoading = TRUE],
        request |-> [path |-> "/api/chat",
                     messages |-> Append(closure.messages, Message("user", content)),
                     conversationId |-> closure.currentConversation],
        pending |-> [pc |-> "posting", closure |-> closure, thenSend |-> thenSend]]

\* the state createNewConversation leaves behind, run by a handler that
\* closed over the render `closure`, when the fetch was answered with
\* `answer` (a status of 0: the fetch failed and the catch block logged it)
createNewConversation(closure, answer, current) ==
  IF answer.status = 0 THEN current
  ELSE [current EXCEPT
          !.conversations = <<answer.conversation>> \o closure.conversations,
          !.currentConversation = answer.conversation,
          !.messages = <<>>]

(***************************************************************************)
(* Inputs of the categorizer: descriptions made of up to MaxFragments      *)
(* fragments (mixed case, shared keywords, keywords inside other words).   *)
(***************************************************************************)
MaxFragments == 2

Fragments == {
<<"R","e","n","t">>,   \* "Rent"
  <<"i","n","s","u","r","a","n","c","e">>,   \* "insurance"
  <<"m","a","i","n","t","e","n","a","n","c","e">>,   \* "maintenance"
  <<"V","e","g","a","s">>,   \* "Vegas"
  <<"C","a","r"," ">>,   \* "Car "
  <<"p","a","y","m","e","n","t">>,   \* "payment"
  <<"c","r","e","d","i","t"," ","c","a","r","d">>,   \* "credit card"
  <<"P","i","r","a","t","e">>,   \* "Pirate"
  <<"s","a","l","a","r","y">>,   \* "salary"
  <<"r","e","n","t","a","l"," ","i","n","c","o","m","e">>,   \* "rental income"
  <<"i","n","v","e","s","t","m","e","n","t"," ","i","n","c","o","m","e">>,   \* "investment income"
  <<"x","y","z">>,   \* "xyz"
  <<"U","B","E","R">>,   \* "UBER"
  <<"4","0","1","K">>,   \* "401K"
  <<" ">>    \* " "
}

RECURSIVE DescriptionsOf(_)
DescriptionsOf(n) ==
  IF n = 0 THEN {<<>>}
  ELSE LET shorter == DescriptionsOf(n - 1)
       IN  shorter \cup {d \o f : d \in shorter, f \in Fragments}

Descriptions == DescriptionsOf(MaxFragments)

(***************************************************************************)
(* Inputs of the metrics engine and of the spending aggregator             *)
(***************************************************************************)
MaxTransactions == 3

\* "YYYY-MM-DD"
DateString(y, m, d) == [year |-> y, month |-> m, day |-> d]

Transaction(type, amount, desc, date) ==
  [transaction_type |-> type, amount |-> amount, description |-> desc, transaction_date |-> date]

Feb29 == DateString(2024, 2, 29)
Apr30 == DateString(2024, 4, 30)
May01 == DateString(2024, 5, 1)

\* "Salary"
DescSalary == <<"S","a","l","a","r","y">>
\* "Credit Card"
DescCreditCard == <<"C","r","e","d","i","t"," ","C","a","r","d">>
\* "rent loan payment": a Debt keyword behind a Housing keyword
DescRentLoan == <<"r","e","n","t"," ","l","o","a","n"," ","p","a","y","m","e","n","t">>
\* "coffee"
DescCoffee == <<"c","o","f","f","e","e">>
\* "ATM": no keyword
DescATM == <<"A","T","M">>

TransactionUniverse == {
  Transaction("income",   60,  DescSalary,     May01),
  Transaction("income",   -10, DescSalary,     Feb29),
  Transaction("expense",  -30, DescCreditCard, Feb29),
  Transaction("expense",  75,  DescCreditCard, May01),
  Transaction("expense",  -15, DescRentLoan,   Apr30),
  Transaction("expense",  0,   DescATM,        May01),
  Transaction("transfer", 50,  DescCreditCard, May01)
}

TransactionLists == UNION {[1..n -> TransactionUniverse] : n \in 0..MaxTransactions}

Balances == {0, 90}

\* a value of the clock: getFullYear(), getMonth() (0-based) and getDate()
Clock(y, m, d) == [year |-> y, month |-> m, date |-> d]
May15 == Clock(2024, 4, 15)
May31 == Clock(2024, 4, 31)
Clocks == {May15, May31}

\* UTC, and five hours west of it
TimeZones == {0, 5}

NotCalled == [called |-> FALSE]
Called(clock, result) == [called |-> TRUE, clock |-> clock, result |-> result]

(***************************************************************************)
(* Inputs of the insight generator: metrics and spending maps on both      *)
(* sides of every threshold of the rules.                                  *)
(***************************************************************************)
IncomeSums == {0, 1000}
ExpenseSums == {0, 800, 801, 900, 901, 1500}
DebtSums == {0, 200, 201, 400, 401}
BalancesFor(totalExpenses) ==
  {b \in {0, totalExpenses - 1, totalExpenses, 2 * totalExpenses - 1, 2 * totalExpenses} : b >= 0}

MetricsInputs ==
  {metricsOf(x[1], x[2], x[3], x[4]) :
     x \in {y \in IncomeSums \X ExpenseSums \X DebtSums \X UNION {BalancesFor(te) : te \in ExpenseSums} :
              y[3] <= y[2] /\ y[4] \in BalancesFor(y[2])}}

\* no expense of the category, or one expense of one of these amounts
ExpensesOf(desc, amounts) ==
  {<<>>} \cup {<<Transaction("expense", a, desc, May01)>> : a \in amounts}

\* the rest of a month's spending of 1000, or nothing else
RestOf(h, f) ==
  {<<>>, <<Transaction("expense", 1000 - sumAbsAmount(h) - sumAbsAmount(f), DescATM, May01)>>}

SpendingInputs ==
  UNION {{analyzeSpendingByCategory(hf[1] \o hf[2] \o o, May15, 0) : o \in RestOf(hf[1], hf[2])} :
           hf \in ExpensesOf(DescRentLoan, {0, 300, 301}) \X ExpensesOf(DescCoffee, {0, 150, 151})}

(***************************************************************************)
(* Inputs of the investment planner                                        *)
(***************************************************************************)
Returned(result) == [called |-> TRUE, result |-> result]

Profile(currentAge, timeHorizon, riskTolerance) ==
  [currentAge |-> currentAge, timeHorizon |-> timeHorizon,
   riskTolerance |-> riskTolerance, investmentGoals |-> <<>>]

\* a newborn and a young adult, and ages on both sides of the ages at which a
\* floor or the bond cap takes over
Ages == {0, 18, 30, 61, 70, 75, 80, 90}

\* horizons on both sides of the bucket limits 3 and 10
Horizons == {1, 2, 3, 9, 10, 35}

\* the three tolerances of the profile type and a string that is none of them
RiskTolerances == {"conservative", "moderate", "aggressive", "balanced"}

Profiles == {Profile(a, h, t) : a \in Ages, h \in Horizons, t \in RiskTolerances}

\* allocations in quarters, invested in full or in part
Quarters == {0, 25, 50, 75, 100}

Allocations ==
  {a \in [{"stocks", "bonds", "realEstate", "commodities", "cash"} -> Quarters] :
     a.stocks + a.bonds + a.realEstate + a.commodities + a.cash <= 100}

\* a holding: one row of the investments table
Investment(symbol, lot) ==
  [symbol |-> symbol, shares |-> lot.shares, purchase_price |-> lot.purchase_price,
   current_price |-> lot.current_price]

Lot(shares, purchase_price, current_price) ==
  [shares |-> shares, purchase_price |-> purchase_price, current_price |-> current_price]

\* a gain, a loss, fractional shares at prices with cents, shares that cost
\* nothing, shares that are worth nothing, an unchanged price
Lots ==
  <<Lot(Dbl(10), Dbl(100), Dbl(150)),
    Lot(Dbl(5), Dbl(200), Dbl(120)),
    Lot(Dec(15, 10), Dec(1010, 100), Dec(1235, 100)),
    Lot(Dbl(3), Dbl(0), Dbl(40)),
    Lot(Dbl(2), Dbl(50), Dbl(0)),
    Lot(Dbl(1), Dbl(10), Dbl(10))>>

Symbols ==
  <<"AAPL", "MSFT", "GOOG", "AMZN", "TSLA", "NVDA", "META", "VTI", "VOO", "BND",
    "GLD", "VNQ", "QQQ", "SPY">>

MaxSymbols == 11
MaxExtraLots == 2

\* symbols distinct symbols, one lot each, the lots taken in turn from Lots
\* starting with Lots[first]; then extra further lots of the first symbol
Holdings(symbols, first, extra) ==
  [i \in 1..symbols |-> Investment(Symbols[i], Lots[((first + i - 2) % Len(Lots)) + 1])]
    \o (IF symbols = 0 THEN <<>>
        ELSE [i \in 1..extra |-> Investment(Symbols[1], Lots[((first + i - 1) % Len(Lots)) + 1])])

Portfolios ==
  {Holdings(n, f, x) : n \in 0..MaxSymbols, f \in 1..Len(Lots), x \in 0..MaxExtraLots}

\* amounts of money, years and yearly returns of a goal: years on both sides
\* of 0, and returns whose monthly compounding is a number (0 and 0.75, a
\* monthly 1/16) or falls between two numbers (0.06)
Amounts == {0, 1000, 5000, 12000}
Years == {-1, 0, 1, 2}
Returns == {<<0, 1>>, <<6, 100>>, <<3, 4>>}

Goal(currentAmount, targetAmount, yearsToGoal, expectedReturn) ==
  [currentAmount |-> currentAmount, targetAmount |-> targetAmount,
   yearsToGoal |-> yearsToGoal, expectedReturn |-> expectedReturn]

Goals == {Goal(c, t, y, r) : c \in Amounts, t \in Amounts, y \in Years, r \in Returns}

\* savings plans: a goal met at the start, met within the year, met in the
\* last month before the cap, met in the month of the cap, and never met
Plan(currentAmount, monthlyContribution, expectedReturn, targetAmount) ==
  [currentAmount |-> currentAmount, monthlyContribution |-> monthlyContribution,
   expectedReturn |-> expectedReturn, targetAmount |-> targetAmount]

Plans ==
  {Plan(1000, 0, <<6, 100>>, 500), Plan(1000, 0, <<0, 1>>, 1000),
   Plan(0, 100, <<0, 1>>, 1200), Plan(1000, 50, <<6, 100>>, 2000),
   Plan(0, 1, <<0, 1>>, 599), Plan(0, 1, <<0, 1>>, 600),
   Plan(1000, 0, <<0, 1>>, 2000), Plan(0, 0, <<6, 100>>, 1)}

\* the engine and the parts of the planner a specification leaves alone
EngineIdle ==
  /\ description = <<>> /\ category = NoResult
  /\ now = May15 /\ tz = 0 /\ transactions = <<>> /\ emergencyFundBalance = 0
  /\ metrics = NotCalled /\ spending = NotCalled /\ insights = NotCalled

AllocIdle ==
  /\ profile = Profile(30, 35, "moderate")
  /\ ageBasedAllocation = NotCalled /\ goalBasedAllocation = NotCalled
  /\ recommendation = NotCalled

RiskIdle ==
  /\ allocation = [stocks |-> 0, bonds |-> 0, realEstate |-> 0, commodities |-> 0, cash |-> 100]
  /\ risk = NotCalled

PerfIdle == investments = <<>> /\ performance = NotCalled

PlanIdle == AllocIdle /\ RiskIdle /\ PerfIdle

NotStarted == [pc |-> "idle", amount |-> Dbl(0), months |-> 0, result |-> NotCalled]

GoalIdle ==
  /\ goal = Goal(0, 0, 0, <<0, 1>>) /\ contribution = NotCalled
  /\ plan = Plan(0, 0, <<0, 1>>, 0) /\ projection = NotStarted

MaxConversations == 2
MaxMessages == 4

\* what a user types: a greeting, and a blank
Texts == {<<"h", "i">>, <<" ">>}

ChatIdle ==
  /\ page = NewPage /\ pending = NothingPending
  /\ request = NoRequest /\ handler = HandlerIdle /\ response = NoResponse
  /\ signedIn = TRUE /\ chat_conversations = <<>> /\ chat_messages = <<>>

(***************************************************************************)
(* The categorizer on its own: SpecCat                                     *)
(***************************************************************************)
InitCat ==
  /\ PlanIdle /\ GoalIdle /\ ChatIdle
  /\ description \in Descriptions
  /\ category = NoResult
  /\ now = May15 /\ tz = 0 /\ transactions = <<>> /\ emergencyFundBalance = 0
  /\ metrics = NotCalled /\ spending = NotCalled /\ insights = NotCalled

Categorize ==
  /\ category = NoResult
  /\ category' = categorizeTransaction(description)
  /\ UNCHANGED <<description, finVars, insVars, goalVars, planVars, chatVars>>

NextCat == Categorize

SpecCat == InitCat /\ [][NextCat]_vars

(***************************************************************************)
(* The metrics engine and the spending aggregator, called on a             *)
(* transaction list while the clock advances: Spec                         *)
(***************************************************************************)
Init ==
  /\ PlanIdle /\ GoalIdle /\ ChatIdle
  /\ description = <<>> /\ category = NoResult
  /\ now = May15
  /\ tz \in TimeZones
  /\ transactions \in TransactionLists
  /\ emergencyFundBalance \in Balances
  /\ metrics = NotCalled /\ spending = NotCalled /\ insights = NotCalled

Before(c1, c2) == MakeDay(c1.year, c1.month, c1.date) < MakeDay(c2.year, c2.month, c2.date)

\* time passes
Tick ==
  /\ \E c \in Clocks : Before(now, c) /\ now' = c
  /\ UNCHANGED <<tz, transactions, emergencyFundBalance, metrics, spending, catVars, insVars, goalVars, planVars, chatVars>>

CalcMetrics ==
  /\ metrics' = Called(now, calculateFinancialMetrics(transactions, emergencyFundBalance, now, tz))
  /\ UNCHANGED <<now, tz, transactions, emergencyFundBalance, spending, catVars, insVars, goalVars, planVars, chatVars>>

AnalyzeSpending ==
  /\ spending' = Called(now, analyzeSpendingByCategory(transactions, now, tz))
  /\ UNCHANGED <<now, tz, transactions, emergencyFundBalance, metrics, catVars, insVars, goalVars, planVars, chatVars>>

Next == Tick \/ CalcMetrics \/ AnalyzeSpending

Spec == Init /\ [][Next]_vars

(***************************************************************************)
(* The insight generator on its own: SpecInsights                          *)
(***************************************************************************)
InitInsights ==
  /\ PlanIdle /\ GoalIdle /\ ChatIdle
  /\ description = <<>> /\ category = NoResult
  /\ now = May15 /\ tz = 0 /\ transactions = <<>> /\ emergencyFundBalance = 0
  /\ metrics \in {Called(May15, m) : m \in MetricsInputs}
  /\ spending \in {Called(May15, s) : s \in SpendingInputs}
  /\ insights = NotCalled

GenerateInsights ==
  /\ metrics.called /\ spending.called /\ ~insights.called
  /\ insights' = [called |-> TRUE,
                  result |-> generateFinancialInsights(metrics.result, spending.result)]
  /\ UNCHANGED <<finVars, catVars, planVars, goalVars, chatVars>>

NextInsights == GenerateInsights

SpecInsights == InitInsights /\ [][NextInsights]_vars

(***************************************************************************)
(* The allocation functions and the recommendation: SpecAllocation         *)
(***************************************************************************)
InitAllocation ==
  /\ EngineIdle /\ RiskIdle /\ PerfIdle /\ GoalIdle /\ ChatIdle
  /\ profile \in Profiles
  /\ ageBasedAllocation = NotCalled /\ goalBasedAllocation = NotCalled
  /\ recommendation = NotCalled

CalcAgeBased ==
  /\ ~ageBasedAllocation.called
  /\ ageBasedAllocation' =
       Returned(calculateAgeBasedAllocation(Dbl(profile.currentAge), profile.riskTolerance))
  /\ UNCHANGED <<profile, goalBasedAllocation, recommendation,
                 riskVars, perfVars, catVars, finVars, insVars, goalVars, chatVars>>

CalcGoalBased ==
  /\ ~goalBasedAllocation.called
  /\ goalBasedAllocation' =
       Returned(calculateGoalBasedAllocation(Dbl(profile.timeHorizon), profile.riskTolerance,
                                             firstGoal(profile.investmentGoals)))
  /\ UNCHANGED <<profile, ageBasedAllocation, recommendation,
                 riskVars, perfVars, catVars, finVars, insVars, goalVars, chatVars>>

Recommend ==
  /\ ~recommendation.called
  /\ recommendation' = Returned(generateInvestmentRecommendation(profile))
  /\ UNCHANGED <<profile, ageBasedAllocation, goalBasedAllocation,
                 riskVars, perfVars, catVars, finVars, insVars, goalVars, chatVars>>

NextAllocation == CalcAgeBased \/ CalcGoalBased \/ Recommend

SpecAllocation == InitAllocation /\ [][NextAllocation]_vars

(***************************************************************************)
(* The risk assessment on its own: SpecRisk                                *)
(***************************************************************************)
InitRisk ==
  /\ EngineIdle /\ AllocIdle /\ PerfIdle /\ GoalIdle /\ ChatIdle
  /\ allocation \in Allocations
  /\ risk = NotCalled

AssessRisk ==
  /\ ~risk.called
  /\ risk' = Returned(assessPortfolioRisk(
                Literal(allocation.stocks, allocation.bonds, allocation.realEstate,
                        allocation.commodities, allocation.cash)))
  /\ UNCHANGED <<allocation, allocVars, perfVars, catVars, finVars, insVars, goalVars, chatVars>>

NextRisk == AssessRisk

SpecRisk == InitRisk /\ [][NextRisk]_vars

(***************************************************************************)
(* The portfolio performance on its own: SpecPortfolio                     *)
(***************************************************************************)
InitPortfolio ==
  /\ EngineIdle /\ AllocIdle /\ RiskIdle /\ GoalIdle /\ ChatIdle
  /\ investments \in Portfolios
  /\ performance = NotCalled

CalcPerformance ==
  /\ ~performance.called
  /\ performance' = Returned(calculatePortfolioPerformance(investments))
  /\ UNCHANGED <<investments, allocVars, riskVars, catVars, finVars, insVars, goalVars, chatVars>>

NextPortfolio == CalcPerformance

SpecPortfolio == InitPortfolio /\ [][NextPortfolio]_vars

(***************************************************************************)
(* The contribution a goal needs: SpecContribution                         *)
(***************************************************************************)
InitContribution ==
  /\ EngineIdle /\ PlanIdle /\ ChatIdle
  /\ goal \in Goals /\ contribution = NotCalled
  /\ plan = Plan(0, 0, <<0, 1>>, 0) /\ projection = NotStarted

CalcContribution ==
  /\ ~contribution.called
  /\ \E needed \in calculateMonthlyContributionNeeded(
                      Dbl(goal.currentAmount), Dbl(goal.targetAmount), Dbl(goal.yearsToGoal),
                      Dec(goal.expectedReturn[1], goal.expectedReturn[2])) :
       contribution' = Returned(needed)
  /\ UNCHANGED <<goal, plan, projection, catVars, finVars, insVars, planVars, chatVars>>

NextContribution == CalcContribution

SpecContribution == InitContribution /\ [][NextContribution]_vars

(***************************************************************************)
(* The projection of a savings plan, one month of the loop at a time:      *)
(* SpecProjection.  The function runs to its end once it is called.        *)
(***************************************************************************)
InitProjection ==
  /\ EngineIdle /\ PlanIdle /\ ChatIdle
  /\ goal = Goal(0, 0, 0, <<0, 1>>) /\ contribution = NotCalled
  /\ plan \in Plans /\ projection = NotStarted

\* let amount = currentAmount; let months = 0
ProjectCall ==
  /\ projection.pc = "idle"
  /\ projection' = [projection EXCEPT !.pc = "loop", !.amount = Dbl(plan.currentAmount),
                                      !.months = 0]
  /\ UNCHANGED <<goal, contribution, plan, catVars, finVars, insVars, planVars, chatVars>>

\* one turn of the while loop
ProjectMonth ==
  /\ projection.pc = "loop"
  /\ stillShort(projection.amount, Dbl(plan.targetAmount), projection.months)
  /\ projection' =
       [projection EXCEPT
          !.amount = monthLater(projection.amount,
                                dblDiv(Dec(plan.expectedReturn[1], plan.expectedReturn[2]), Dbl(12)),
                                Dbl(plan.monthlyContribution)),
          !.months = projection.months + 1]
  /\ UNCHANGED <<goal, contribution, plan, catVars, finVars, insVars, planVars, chatVars>>

\* the loop is left and the result returned
ProjectReturn ==
  /\ projection.pc = "loop"
  /\ ~stillShort(projection.amount, Dbl(plan.targetAmount), projection.months)
  /\ projection' = [projection EXCEPT !.pc = "returned",
                                      !.result = projected(projection.amount, projection.months)]
  /\ UNCHANGED <<goal, contribution, plan, catVars, finVars, insVars, planVars, chatVars>>

NextProjection == ProjectCall \/ ProjectMonth \/ ProjectReturn

SpecProjection == InitProjection /\ [][NextProjection]_vars /\ WF_vars(NextProjection)

(***************************************************************************)
(* The chat page, the route that creates a conversation and the route that *)
(* answers a message: SpecChat.  The page has one fetch in flight at a     *)
(* time; the earlier conversations of the user are not loaded.             *)
(***************************************************************************)
InitChat ==
  /\ EngineIdle /\ PlanIdle /\ GoalIdle
  /\ page = NewPage /\ pending = NothingPending
  /\ request = NoRequest /\ handler = HandlerIdle /\ response = NoResponse
  /\ signedIn \in BOOLEAN /\ chat_conversations = <<>> /\ chat_messages = <<>>

engineAndPlanner == <<catVars, finVars, insVars, planVars, goalVars>>

\* onChange of the input
TypeMessage ==
  /\ pending.pc = "idle" /\ ~page.isLoading
  /\ \E text \in Texts : text # page.inputMessage /\ page' = [page EXCEPT !.inputMessage = text]
  /\ UNCHANGED <<pending, request, handler, response, signedIn, chat_conversations,
                 chat_messages, engineAndPlanner>>

\* the session of the user ends
SignOut ==
  /\ signedIn /\ signedIn' = FALSE
  /\ UNCHANGED <<page, pending, request, handler, response, chat_conversations,
                 chat_messages, engineAndPlanner>>

\* the handler of the Enter key and of the send button: with no current
\* conversation createNewConversation().then(() => sendMessage(inputMessage)),
\* else sendMessage(inputMessage)
Submit ==
  /\ pending.pc = "idle" /\ ~page.isLoading
  /\ Len(page.messages) + 2 <= MaxMessages
  /\ IF page.currentConversation = Null
     THEN /\ Len(page.conversations) < MaxConversations
          /\ pending' = [pc |-> "creating", closure |-> page, thenSend |-> TRUE]
          /\ request' = [path |-> "/api/chat/conversations"]
          /\ page' = page
     ELSE LET sent == sendMessage(page, page.inputMessage, page, FALSE)
          IN  page' = sent.page /\ request' = sent.request /\ pending' = sent.pending

\* onKeyPress with Enter: the input is enabled unless a message is on its way
PressEnter ==
  /\ Submit
  /\ UNCHANGED <<handler, response, signedIn, chat_conversations, chat_messages,
                 engineAndPlanner>>

\* onClick of the send button, which is disabled while the input is blank
ClickSend ==
  /\ trim(page.inputMessage) # <<>>
  /\ Submit
  /\ UNCHANGED <<handler, response, signedIn, chat_conversations, chat_messages,
                 engineAndPlanner>>

\* onClick of the button for a new conversation: createNewConversation()
ClickNewConversation ==
  /\ pending.pc = "idle"
  /\ Len(page.conversations) < MaxConversations
  /\ pending' = [pc |-> "creating", closure |-> page, thenSend |-> FALSE]
  /\ request' = [path |-> "/api/chat/conversations"]
  /\ UNCHANGED <<page, handler, response, signedIn, chat_conversations, chat_messages,
                 engineAndPlanner>>

\* POST /api/chat/conversations: 401 without a user, 500 when the insert
\* returns an error, else the new row
CreateConversation ==
  /\ request.path = "/api/chat/conversations" /\ response = NoResponse
  /\ \/ /\ ~signedIn
        /\ response' = [status |-> 401, conversation |-> Null]
        /\ UNCHANGED chat_conversations
     \/ /\ signedIn
        /\ response' = [status |-> 500, conversation |-> Null]
        /\ UNCHANGED chat_conversations
     \/ /\ signedIn
        /\ Len(chat_conversations) < Len(ConversationIds)
        /\ chat_conversations' =
             Append(chat_conversations, ConversationIds[Len(chat_conversations) + 1])
        /\ response' = [status |-> 200,
                        conversation |-> ConversationIds[Len(chat_conversations) + 1]]
  /\ UNCHANGED <<page, pending, request, handler, signedIn, chat_messages, engineAndPlanner>>

\* the fetch of createNewConversation fails: the request never gets an answer
ConversationFetchFails ==
  /\ request.path = "/api/chat/conversations" /\ response = NoResponse
  /\ response' = [status |-> 0, conversation |-> Null]
  /\ UNCHANGED <<page, pending, request, handler, signedIn, chat_conversations,
                 chat_messages, engineAndPlanner>>

\* the fetch of createNewConversation settles: the rest of the function
\* runs, and then the callback of .then(), if there is one
ConversationAnswered ==
  /\ pending.pc = "creating" /\ response # NoResponse
  /\ LET created == createNewConversation(pending.closure, response, page)
         sent == sendMessage(pending.closure, pending.closure.inputMessage, created, TRUE)
     IN  IF pending.thenSend
         THEN page' = sent.page /\ request' = sent.request /\ pending' = sent.pending
         ELSE page' = created /\ request' = NoRequest /\ pending' = NothingPending
  /\ response' = NoResponse
  /\ UNCHANGED <<handler, signedIn, chat_conversations, chat_messages, engineAndPlanner>>

\* POST /api/chat, lines 13-23: the user is looked up
HandleAuth ==
  /\ request.path = "/api/chat" /\ response = NoResponse /\ handler.pc = "idle"
  /\ IF signedIn
     THEN handler' = [HandlerIdle EXCEPT !.pc = "authorized", !.user = TRUE] /\ response' = response
     ELSE handler' = handler /\ response' = [status |-> 401, message |-> NoText]
  /\ UNCHANGED <<page, pending, request, signedIn, chat_conversations, chat_messages,
                 engineAndPlanner>>

\* lines 25-126: the context is read and the reply generated, or one of the
\* calls throws and the catch block answers 500
HandleGenerate ==
  /\ handler.pc = "authorized"
  /\ \/ handler' = [handler EXCEPT !.pc = "generated", !.text = <<"o", "k">>] /\ response' = response
     \/ handler' = [handler EXCEPT !.pc = "idle"] /\ response' = [status |-> 500, message |-> NoText]
  /\ UNCHANGED <<page, pending, request, signedIn, chat_conversations, chat_messages,
                 engineAndPlanner>>

\* lines 129-135: the insert of the user's message, whose result is not
\* looked at: the row is written, or the insert returns an error
HandleSaveUser ==
  /\ handler.pc = "generated" /\ request.conversationId # Null
  /\ \/ /\ chat_messages' =
             Append(chat_messages,
                    [conversation_id |-> request.conversationId, role |-> "user",
                     content |-> request.messages[Len(request.messages)].content])
        /\ handler' = [handler EXCEPT !.pc = "userSaved", !.inserted = Append(@, "user")]
     \/ /\ chat_messages' = chat_messages
        /\ handler' = [handler EXCEPT !.pc = "userSaved"]
  /\ UNCHANGED <<page, pending, request, response, signedIn, chat_conversations,
                 engineAndPlanner>>

\* lines 137-142: the insert of the reply, whose result is not looked at
HandleSaveAssistant ==
  /\ handler.pc = "userSaved"
  /\ \/ /\ chat_messages' =
             Append(chat_messages,
                    [conversation_id |-> request.conversationId, role |-> "assistant",
                     content |-> handler.text])
        /\ handler' = [handler EXCEPT !.pc = "saved", !.inserted = Append(@, "assistant")]
     \/ /\ chat_messages' = chat_messages
        /\ handler' = [handler EXCEPT !.pc = "saved"]
  /\ UNCHANGED <<page, pending, request, response, signedIn, chat_conversations,
                 engineAndPlanner>>

\* line 145: the reply is returned
HandleRespond ==
  /\ \/ handler.pc = "saved"
     \/ handler.pc = "generated" /\ request.conversationId = Null
  /\ response' = [status |-> 200, message |-> handler.text]
  /\ handler' = [handler EXCEPT !.pc = "idle"]
  /\ UNCHANGED <<page, pending, request, signedIn, chat_conversations, chat_messages,
                 engineAndPlanner>>

\* the fetch of sendMessage settles: the reply, if there is one, is shown
ChatAnswered ==
  /\ pending.pc = "posting" /\ response # NoResponse
  /\ page' = [page EXCEPT
                !.messages = IF response.message # NoText
                             THEN Append(@, Message("assistant", response.message)) ELSE @,
                !.isLoading = FALSE]
  /\ pending' = NothingPending /\ request' = NoRequest /\ response' = NoResponse
  /\ handler' = HandlerIdle
  /\ UNCHANGED <<signedIn, chat_conversations, chat_messages, engineAndPlanner>>

NextChat ==
  \/ TypeMessage \/ SignOut \/ PressEnter \/ ClickSend \/ ClickNewConversation
  \/ CreateConversation \/ ConversationFetchFails \/ ConversationAnswered
  \/ HandleAuth \/ HandleGenerate \/ HandleSaveUser \/ HandleSaveAssistant \/ HandleRespond
  \/ ChatAnswered

SpecChat == InitChat /\ [][NextChat]_vars

(***************************************************************************)
(* Properties of the categorizer (checked under SpecCat)                   *)
(***************************************************************************)
ElevenCategories ==
  {"Housing", "Transportation", "Food", "Healthcare", "Entertainment", "Shopping",
   "Education", "Savings", "Debt", "Income", "Other"}

DeclaredOrder ==
  <<"Housing", "Transportation", "Food", "Healthcare", "Entertainment", "Shopping",
    "Education", "Savings", "Debt", "Income">>

KeywordsOf(name) ==
  TRANSACTION_CATEGORIES[CHOOSE i \in 1..Len(TRANSACTION_CATEGORIES) :
                           TRANSACTION_CATEGORIES[i].category = name].keywords

\* the categories declared before a category
DeclaredBefore(name) ==
  {DeclaredOrder[k] : k \in {i \in 1..Len(DeclaredOrder) :
                               \E j \in (i + 1)..Len(DeclaredOrder) : DeclaredOrder[j] = name}}

\* some keyword of the category is a substring of the lower-cased description
Matches(name, desc) ==
  LET keywords == KeywordsOf(name)
      lower    == toLowerCase(desc)
  IN  \E j \in 1..Len(keywords) : includes(lower, keywords[j])

\* C1: categorizeTransaction returns, for every description (the empty one
\* included), one of the 11 fixed category names, and it returns "Other"
\* exactly when no keyword of any category is a substring of the lower-cased
\* description.
C1_CategorizerTotal ==
  category # NoResult =>
    /\ category \in ElevenCategories
    /\ category = "Other" <=> ~ \E name \in ElevenCategories : Matches(name, description)

C1_Witness == category = "Other" /\ description = <<>>

\* C2: categorizeTransaction returns the first category, in the declared order
\* Housing, Transportation, ..., Income, that has a keyword in the description
\* (case-insensitively); a description that matches two categories gets the
\* earlier one.
C2_FirstMatchWins ==
  category # NoResult =>
    \A i \in 1..Len(DeclaredOrder) :
      (/\ Matches(DeclaredOrder[i], description)
       /\ \A k \in 1..(i - 1) : ~Matches(DeclaredOrder[k], description))
      => category = DeclaredOrder[i]

\* "insurance" is a keyword of Housing and of Transportation
C2_Witness ==
  /\ category = "Housing"
  /\ Matches("Transportation", description)
  /\ includes(toLowerCase(description), <<"i","n","s","u","r","a","n","c","e">>)

(***************************************************************************)
(* Properties of the metrics engine and of the spending aggregator         *)
(* (checked under Spec)                                                    *)
(***************************************************************************)
\* the indices of a list that satisfy a test
Indices(ts, Test(_)) == {i \in 1..Len(ts) : Test(ts[i])}

\* the sum of |amount| over a set of indices of a list
RECURSIVE SumAbsOver(_, _)
SumAbsOver(ts, I) ==
  IF I = {} THEN 0
  ELSE LET i == CHOOSE k \in I : TRUE
       IN  Abs(ts[i].amount) + SumAbsOver(ts, I \ {i})

\* the sums of the amounts, of the counts and of the percentages of the buckets
\* C of a spending map
RECURSIVE SumAmounts(_, _)
SumAmounts(buckets, C) ==
  IF C = {} THEN 0
  ELSE LET c == CHOOSE k \in C : TRUE
       IN  buckets[c].amount + SumAmounts(buckets, C \ {c})

RECURSIVE SumCounts(_, _)
SumCounts(buckets, C) ==
  IF C = {} THEN 0
  ELSE LET c == CHOOSE k \in C : TRUE
       IN  buckets[c].transactions + SumCounts(buckets, C \ {c})

RECURSIVE SumPercentages(_, _)
SumPercentages(buckets, C) ==
  IF C = {} THEN Num(0)
  ELSE LET c == CHOOSE k \in C : TRUE
       IN  jsAdd(buckets[c].percentage, SumPercentages(buckets, C \ {c}))

\* the transactions the last call of calculateFinancialMetrics kept, and the
\* expenses the last call of analyzeSpendingByCategory kept
MetricsWindow == recentTransactions(transactions, metrics.clock, tz)
SpendingWindow == expenseTransactions(transactions, spending.clock, tz)

C4_NoDivisionByZero ==
  metrics.called =>
    LET m == metrics.result
    IN  /\ isFinite(m.savingsRate) /\ isFinite(m.emergencyFundMonths)
        /\ isFinite(m.debtToIncomeRatio)
        /\ m.totalIncome = 0 => m.savingsRate = Num(0) /\ m.debtToIncomeRatio = Num(0)
        /\ m.totalExpenses = 0 => m.emergencyFundMonths = Num(0)
        /\ (transactions = <<>> /\ emergencyFundBalance = 0) =>
             /\ m.totalIncome = 0 /\ m.totalExpenses = 0 /\ m.netIncome = 0
             /\ m.savingsRate = Num(0) /\ m.debtToIncomeRatio = Num(0)
             /\ m.emergencyFundMonths = Num(0) /\ m.monthlyBudgetVariance = 0

\* a positive balance and transactions, but neither income nor expenses in the window
C4_Witness ==
  /\ metrics.called
  /\ transactions # <<>> /\ emergencyFundBalance > 0
  /\ metrics.result.totalIncome = 0 /\ metrics.result.totalExpenses = 0

\* C5: totalIncome is the sum of |amount| over the in-window transactions of
\* type income, totalExpenses the same over type expense, transfers count in
\* neither, netIncome = totalIncome - totalExpenses, and savingsRate =
\* netIncome / totalIncome x 100 when totalIncome > 0.
C5_IncomeAndExpenses ==
  metrics.called =>
    LET m        == metrics.result
        income   == SumAbsOver(MetricsWindow,
                      Indices(MetricsWindow, LAMBDA t : t.transaction_type = "income"))
        expenses == SumAbsOver(MetricsWindow,
                      Indices(MetricsWindow, LAMBDA t : t.transaction_type = "expense"))
    IN  /\ m.totalIncome = income
        /\ m.totalExpenses = expenses
        /\ m.netIncome = income - expenses
        /\ income > 0 => m.savingsRate = Rat(100 * (income - expenses), income)

\* income, larger expenses and a transfer in the window: a negative savings rate
C5_Witness ==
  /\ metrics.called
  /\ metrics.result.totalIncome > 0
  /\ metrics.result.savingsRate.n < 0
  /\ \E i \in 1..Len(MetricsWindow) :
       MetricsWindow[i].transaction_type = "transfer" /\ MetricsWindow[i].amount # 0

\* asOf minus k calendar months as a day number, the day of the month clamped
\* to the length of the target month
Min(a, b) == IF a < b THEN a ELSE b
ClampedMonthsAgo(clock, k) ==
  LET ym == clock.year + ((clock.month - k) \div 12)
      mn == (clock.month - k) % 12
  IN  MakeDay(ym, mn, Min(clock.date, DaysInMonth(ym, mn)))

DayOf(str) == MakeDay(str.year, str.month - 1, str.day)

\* C6: the metrics window keeps a transaction iff its date is >= the date 3
\* calendar months before the clock's date, the day clamped to the last day
\* of a shorter target month (31 May gives the last day of February); the
\* spending window does the same with 1 month.
C6_ClampedWindow ==
  /\ metrics.called =>
       MetricsWindow =
         SelectSeq(transactions,
                   LAMBDA t : DayOf(t.transaction_date) >= ClampedMonthsAgo(metrics.clock, 3))
  /\ spending.called =>
       SpendingWindow =
         SelectSeq(transactions,
                   LAMBDA t : /\ t.transaction_type = "expense"
                              /\ DayOf(t.transaction_date) >= ClampedMonthsAgo(spending.clock, 1))

\* C7: the metrics engine and the spending aggregator are functions of their
\* explicit arguments: a later evaluation with the same transactions and the
\* same balance returns the same result.
C7_SameArgumentsSameResult ==
  [][ /\ (metrics.called /\ metrics'.called
            /\ transactions' = transactions /\ emergencyFundBalance' = emergencyFundBalance)
         => metrics'.result = metrics.result
      /\ (spending.called /\ spending'.called /\ transactions' = transactions)
         => spending'.result = spending.result ]_vars

\* C8: debtToIncomeRatio = (debtPayments / 3) / (totalIncome / 3) x 100 when
\* totalIncome > 0, debtPayments being the sum of |amount| over the in-window
\* expenses whose description resolves to "Debt": a description that also
\* matches an earlier category does not count.
C8_DebtToIncome ==
  metrics.called =>
    LET m    == metrics.result
        debt == SumAbsOver(MetricsWindow,
                  Indices(MetricsWindow,
                          LAMBDA t : /\ t.transaction_type = "expense"
                                     /\ Matches("Debt", t.description)
                                     /\ \A name \in DeclaredBefore("Debt") :
                                          ~Matches(name, t.description)))
    IN  m.totalIncome > 0 => m.debtToIncomeRatio = Rat(100 * debt, m.totalIncome)

\* income, a debt payment and an expense whose Debt keyword is shadowed by Housing
C8_Witness ==
  /\ metrics.called
  /\ metrics.result.totalIncome > 0
  /\ metrics.result.debtToIncomeRatio.n > 0
  /\ \E i \in 1..Len(MetricsWindow) :
       /\ MetricsWindow[i].transaction_type = "expense"
       /\ MetricsWindow[i].amount # 0
       /\ Matches("Debt", MetricsWindow[i].description)
       /\ Matches("Housing", MetricsWindow[i].description)

\* C9: analyzeSpendingByCategory counts the in-window expenses only, each in
\* the bucket of the one category categorizeTransaction gives it: a bucket's
\* amount and count are those of the in-window expenses of its category, the
\* amounts sum to the in-window total, the counts to the number of in-window
\* expenses, and only categories with an in-window expense have a bucket.
C9_Buckets ==
  spending.called =>
    LET buckets == spending.result
        window  == SpendingWindow
        all     == 1..Len(window)
        of(c)   == {i \in all : categorizeTransaction(window[i].description) = c}
    IN  /\ DOMAIN buckets = {categorizeTransaction(window[i].description) : i \in all}
        /\ DOMAIN buckets \subseteq ElevenCategories
        /\ \A c \in DOMAIN buckets :
             /\ buckets[c].amount = SumAbsOver(window, of(c))
             /\ buckets[c].transactions = Cardinality(of(c))
        /\ SumAmounts(buckets, DOMAIN buckets) = SumAbsOver(window, all)
        /\ SumCounts(buckets, DOMAIN buckets) = Len(window)

\* two expenses in one bucket, one in another, and no bucket for anything else
C9_Witness ==
  /\ spending.called
  /\ Cardinality(DOMAIN spending.result) = 2
  /\ \E c \in DOMAIN spending.result :
       spending.result[c].transactions = 2 /\ spending.result[c].amount > 0

(***************************************************************************)
(* Properties of the insight generator (checked under SpecInsights)        *)
(***************************************************************************)
\* the position of the rule that emits an insight, in the order of evaluation
RuleOf(insight) ==
  IF insight.title \in {"Low Savings Rate", "Moderate Savings Rate", "Excellent Savings Rate"}
  THEN 1
  ELSE IF insight.title \in {"Insufficient Emergency Fund", "Emergency Fund Needs Growth"}
  THEN 2
  ELSE IF insight.title \in {"High Debt-to-Income Ratio", "Moderate Debt Load"} THEN 3
  ELSE IF insight.title = "High Housing Costs" THEN 4
  ELSE 5

Weight(insight) ==
  IF insight.priority = "high" THEN 3 ELSE IF insight.priority = "medium" THEN 2 ELSE 1

\* C10: generateFinancialInsights returns its insights by priority descending
\* (high, medium, low), and insights of equal priority in the order their
\* rules are evaluated: savings rate, emergency fund, debt-to-income, housing
\* share, food share.
C10_SortedByPriority ==
  insights.called =>
    \A i, j \in 1..Len(insights.result) :
      i < j =>
        /\ Weight(insights.result[i]) >= Weight(insights.result[j])
        /\ Weight(insights.result[i]) = Weight(insights.result[j])
             => RuleOf(insights.result[i]) < RuleOf(insights.result[j])

\* the low savings insight, pushed first, ends behind three medium insights
\* that keep their order, and a high one
C10_Witness ==
  /\ insights.called
  /\ Len(insights.result) = 5
  /\ insights.result[1].title = "High Debt-to-Income Ratio"
  /\ insights.result[2].title = "Emergency Fund Needs Growth"
  /\ insights.result[3].title = "High Housing Costs"
  /\ insights.result[4].title = "Excellent Savings Rate"
  /\ insights.result[5].title = "High Food Spending"

\* the insights of the result that the k-th rule emitted
RuleInsights(k) == SelectSeq(insights.result, LAMBDA i : RuleOf(i) = k)

\* a finite number x is below, or above, the integer k
Below(x, k) == x.n < k * x.d
Above(x, k) == x.n > k * x.d

Is(insight, type, priority) == insight.type = type /\ insight.priority = priority

\* C11: the savings-rate rule yields exactly one insight: critical/high when
\* savingsRate < 10, warning/medium when 10 <= savingsRate < 20, positive/low
\* when savingsRate >= 20; the boundary values 10 and 20 fall in the upper band.
C11_SavingsRateRule ==
  insights.called =>
    LET rate == metrics.result.savingsRate
        emitted == RuleInsights(1)
    IN /\ Len(emitted) = 1
       /\ Below(rate, 10) => Is(emitted[1], "critical", "high")
       /\ ~Below(rate, 10) /\ Below(rate, 20) => Is(emitted[1], "warning", "medium")
       /\ ~Below(rate, 20) => Is(emitted[1], "positive", "low")

\* a savings rate of exactly 10 gives the warning
C11_Witness ==
  /\ insights.called
  /\ metrics.result.savingsRate = Num(10)
  /\ \E i \in 1..Len(insights.result) :
       RuleOf(insights.result[i]) = 1 /\ Is(insights.result[i], "warning", "medium")

\* C12: the emergency-fund rule yields a critical/high insight when
\* emergencyFundMonths < 3, a warning/medium insight when
\* 3 <= emergencyFundMonths < 6, and no emergency-fund insight when
\* emergencyFundMonths >= 6.
C12_EmergencyFundRule ==
  insights.called =>
    LET months == metrics.result.emergencyFundMonths
        emitted == RuleInsights(2)
    IN /\ Below(months, 3) => Len(emitted) = 1 /\ Is(emitted[1], "critical", "high")
       /\ ~Below(months, 3) /\ Below(months, 6)
            => Len(emitted) = 1 /\ Is(emitted[1], "warning", "medium")
       /\ ~Below(months, 6) => emitted = <<>>

\* a fund of exactly 3 months gives the warning (and one of exactly 6 nothing)
C12_Witness ==
  /\ insights.called
  /\ metrics.result.emergencyFundMonths = Num(3)
  /\ \E i \in 1..Len(insights.result) :
       RuleOf(insights.result[i]) = 2 /\ Is(insights.result[i], "warning", "medium")

\* C13: the debt-to-income rule yields a critical/high insight when
\* debtToIncomeRatio > 40, a warning/medium insight when
\* 20 < debtToIncomeRatio <= 40, and no debt insight when
\* debtToIncomeRatio <= 20.
C13_DebtToIncomeRule ==
  insights.called =>
    LET ratio == metrics.result.debtToIncomeRatio
        emitted == RuleInsights(3)
    IN /\ Above(ratio, 40) => Len(emitted) = 1 /\ Is(emitted[1], "critical", "high")
       /\ ~Above(ratio, 40) /\ Above(ratio, 20)
            => Len(emitted) = 1 /\ Is(emitted[1], "warning", "medium")
       /\ ~Above(ratio, 20) => emitted = <<>>

\* a ratio of exactly 40 gives the warning
C13_Witness ==
  /\ insights.called
  /\ metrics.result.debtToIncomeRatio = Num(40)
  /\ \E i \in 1..Len(insights.result) :
       RuleOf(insights.result[i]) = 3 /\ Is(insights.result[i], "warning", "medium")

\* the share of a category in the spending breakdown is above k percent
ShareAbove(name, k) ==
  /\ name \in DOMAIN spending.result
  /\ Above(spending.result[name].percentage, k)

\* C14: a warning/medium housing insight is emitted if and only if a "Housing"
\* bucket is present with percentage > 30, and a warning/low food insight if
\* and only if a "Food" bucket is present with percentage > 15; each of the
\* two rules fires whatever the other rule and the three metric rules do, so
\* the result holds one insight for every rule that applies.
C14_CategoryShareRules ==
  insights.called =>
    LET housing == RuleInsights(4)
        food == RuleInsights(5)
    IN /\ ShareAbove("Housing", 30) => Len(housing) = 1 /\ Is(housing[1], "warning", "medium")
       /\ ~ShareAbove("Housing", 30) => housing = <<>>
       /\ ShareAbove("Food", 15) => Len(food) = 1 /\ Is(food[1], "warning", "low")
       /\ ~ShareAbove("Food", 15) => food = <<>>
       /\ Len(insights.result)
            = Len(RuleInsights(1)) + Len(RuleInsights(2)) + Len(RuleInsights(3))
                + Len(housing) + Len(food)

\* housing and food both fire next to a critical savings rate, a critical
\* emergency fund and a critical debt load
C14_Witness ==
  /\ insights.called
  /\ ShareAbove("Housing", 30) /\ ShareAbove("Food", 15)
  /\ Below(metrics.result.savingsRate, 10)
  /\ Below(metrics.result.emergencyFundMonths, 3)
  /\ Above(metrics.result.debtToIncomeRatio, 40)
  /\ Len(insights.result) = 5

(***************************************************************************)
(* The age-based allocation                                                *)
(***************************************************************************)
\* the stock percentage of a whole age, in integers
C15_Stocks(age, riskTolerance) ==
  LET K == IF riskTolerance = "conservative" THEN 100
           ELSE IF riskTolerance = "aggressive" THEN 120 ELSE 110
      floor == IF riskTolerance = "conservative" THEN 20
               ELSE IF riskTolerance = "aggressive" THEN 40 ELSE 30
  IN IF K - age > floor THEN K - age ELSE floor

C15_Bonds(stocks) == IF 100 - stocks < 60 THEN 100 - stocks ELSE 60

C15_Allocation(stocks, bonds) ==
  Const(Dbl(100 - stocks - bonds), LAMBDA remaining :
    AssetAllocation(Dbl(stocks), Dbl(bonds),
                    mathMin(dblMul(Lit_0_6, remaining), Dbl(15)),
                    mathMin(dblMul(Lit_0_3, remaining), Dbl(10)),
                    mathMax(dblMul(Lit_0_1, remaining), Dbl(5))))

\* C15: the age-based allocation has stocks = max(K - age, floor) with
\* (K, floor) = (100, 20) for conservative, (120, 40) for aggressive and
\* (110, 30) for moderate and for any other tolerance, bonds = min(100 -
\* stocks, 60), and of the remaining 100 - stocks - bonds: realEstate =
\* min(0.6 x remaining, 15), commodities = min(0.3 x remaining, 10), cash =
\* max(0.1 x remaining, 5); age 70 with moderate gives 40/60/0/0/5.
C15_AgeBasedAllocation ==
  ageBasedAllocation.called =>
    /\ ageBasedAllocation.result =
         Const(C15_Stocks(profile.currentAge, profile.riskTolerance), LAMBDA stocks :
           C15_Allocation(stocks, C15_Bonds(stocks)))
    /\ (profile.currentAge = 70 /\ profile.riskTolerance = "moderate"
          => ageBasedAllocation.result = Literal(40, 60, 0, 0, 5))

\* the allocation of an unrecognized tolerance at an age where moderate's
\* constants and conservative's differ
C15_Witness ==
  /\ ageBasedAllocation.called
  /\ profile.riskTolerance = "balanced"
  /\ profile.currentAge = 30
  /\ ageBasedAllocation.result.stocks = Dbl(80)

(***************************************************************************)
(* The goal-based allocation                                               *)
(***************************************************************************)
Recognized == {"conservative", "moderate", "aggressive"}

\* C16: for every time horizon and every one of the three risk tolerances,
\* the five components of the goal-based allocation sum to exactly 100.
C16_SumsToExactly100 ==
  goalBasedAllocation.called /\ profile.riskTolerance \in Recognized
    => totalOf(goalBasedAllocation.result) = Dbl(100)

\* the base weights of a whole time horizon
C17_Base(timeHorizon) ==
  IF timeHorizon < 3 THEN Literal(30, 50, 5, 5, 10)
  ELSE IF timeHorizon < 10 THEN Literal(50, 35, 8, 5, 2)
  ELSE Literal(70, 20, 7, 2, 1)

C17_Multiplier(riskTolerance) ==
  CASE riskTolerance = "conservative" -> Lit_0_7
    [] riskTolerance = "moderate" -> Dbl(1)
    [] riskTolerance = "aggressive" -> Lit_1_3

\* x brought into [low, high]
C17_Clamp(x, low, high) ==
  Const(x, LAMBDA v :
    IF dblLt(v, Dbl(low)) THEN Dbl(low) ELSE IF dblGt(v, Dbl(high)) THEN Dbl(high) ELSE v)

\* the allocation before the normalization
C17_Shifted(base, multiplier) ==
  Const(dblMul(dblSub(base.stocks, Dbl(50)), dblSub(multiplier, Dbl(1))), LAMBDA shift :
    AssetAllocation(C17_Clamp(dblAdd(base.stocks, shift), 10, 90),
                    C17_Clamp(dblSub(base.bonds, dblMul(Lit_0_7, shift)), 5, 80),
                    base.realEstate, base.commodities, base.cash))

\* every component as a percentage of the sum of the five
C17_Normalized(a) ==
  Const(dblAdd(dblAdd(dblAdd(dblAdd(a.stocks, a.bonds), a.realEstate), a.commodities),
               a.cash),
        LAMBDA total :
    AssetAllocation(dblMul(dblDiv(a.stocks, total), Dbl(100)),
                    dblMul(dblDiv(a.bonds, total), Dbl(100)),
                    dblMul(dblDiv(a.realEstate, total), Dbl(100)),
                    dblMul(dblDiv(a.commodities, total), Dbl(100)),
                    dblMul(dblDiv(a.cash, total), Dbl(100))))

\* C17: the goal-based allocation takes the base weights of the horizon's
\* bucket (below 3: 30/50/5/5/10, below 10: 50/35/8/5/2, else 70/20/7/2/1),
\* shifts the stocks by (base stocks - 50) x (multiplier - 1) with the
\* multiplier 0.7, 1.0 or 1.3 of the tolerance, moves the bonds by 0.7 x the
\* shift the other way, clamps the stocks to [10, 90] and the bonds to
\* [5, 80], and then normalizes; realEstate, commodities and cash are
\* changed by the normalization only.
C17_BucketShiftClampNormalize ==
  goalBasedAllocation.called /\ profile.riskTolerance \in Recognized
    => goalBasedAllocation.result =
         Const(C17_Base(profile.timeHorizon), LAMBDA base :
           C17_Normalized(C17_Shifted(base, C17_Multiplier(profile.riskTolerance))))

\* a long horizon with an aggressive tolerance: the stocks go up from 70
C17_Witness ==
  /\ goalBasedAllocation.called
  /\ profile.timeHorizon = 35
  /\ profile.riskTolerance = "aggressive"
  /\ dblGt(goalBasedAllocation.result.stocks, Dbl(70))
  /\ dblLt(goalBasedAllocation.result.bonds, Dbl(20))

(***************************************************************************)
(* The recommendation                                                      *)
(***************************************************************************)
\* the whole numbers a component can be: a young aggressive investor has
\* bonds down to -20 and stocks up to 120
WholePercents == {Dbl(n) : n \in -20..120}
C18_Half == Dec(1, 2)

\* r is the whole number nearest to x, the upper one of two equally near
C18_IsNearestWhole(r, x) ==
  /\ r \in WholePercents
  /\ ~dblLt(x, dblSub(r, C18_Half))
  /\ dblLt(x, dblAdd(r, C18_Half))

\* C18: every component of the recommended allocation is 0.6 x the
\* component of the goal-based allocation + 0.4 x the component of the
\* age-based one, rounded to the nearest integer; so blending an allocation
\* with itself gives that allocation with every component rounded to the
\* nearest integer.
C18_BlendOfGoalAndAge ==
  recommendation.called /\ ageBasedAllocation.called /\ goalBasedAllocation.called
  /\ profile.riskTolerance \in Recognized
    => Const2(goalBasedAllocation.result, ageBasedAllocation.result, LAMBDA g, a :
         \A i \in 1..Len(keys) :
           /\ C18_IsNearestWhole(recommendation.result.allocation[keys[i]],
                                 dblAdd(dblMul(Lit_0_6, g[keys[i]]),
                                        dblMul(Lit_0_4, a[keys[i]])))
           /\ C18_IsNearestWhole(blendAllocations(g, g)[keys[i]], g[keys[i]])
           /\ C18_IsNearestWhole(blendAllocations(a, a)[keys[i]], a[keys[i]]))

\* a recommendation whose stocks lie strictly between those of the two
\* allocations it blends
C18_Witness ==
  /\ recommendation.called /\ ageBasedAllocation.called /\ goalBasedAllocation.called
  /\ profile.riskTolerance \in Recognized
  /\ dblLt(goalBasedAllocation.result.stocks, recommendation.result.allocation.stocks)
  /\ dblLt(recommendation.result.allocation.stocks, ageBasedAllocation.result.stocks)

(***************************************************************************)
(* The risk assessment                                                     *)
(***************************************************************************)
\* the standard deviations of the five asset classes
C19_StdDev ==
  [stocks |-> Dec(16, 100), bonds |-> Dec(4, 100), realEstate |-> Dec(12, 100),
   commodities |-> Dec(20, 100), cash |-> Dec(1, 100)]

\* the sum over the first n asset classes of (component% / 100 x stddev)^2
RECURSIVE C19_SumOfSquares(_, _)
C19_SumOfSquares(a, n) ==
  Const(dblMul(dblDiv(Dbl(a[keys[n]]), Dbl(100)), C19_StdDev[keys[n]]), LAMBDA weighted :
    IF n = 1 THEN dblMul(weighted, weighted)
    ELSE dblAdd(C19_SumOfSquares(a, n - 1), dblMul(weighted, weighted)))

\* C19: the risk score is min(volatility x 500, 100) and lies in [0, 100];
\* the level is "Low" iff the score is below 30, "Moderate" iff it is at
\* least 30 and below 60, and "High" otherwise; the volatility is the root
\* of the sum of (component% / 100 x stddev)^2 with the standard deviations
\* 0.16, 0.04, 0.12, 0.20 and 0.01; an all-cash allocation is "Low".
C19_RiskScoreAndLevel ==
  risk.called =>
    Const2(risk.result.riskScore, dblMul(risk.result.volatility, Dbl(500)),
           LAMBDA score, scaled :
      /\ score = (IF dblLt(scaled, Dbl(100)) THEN scaled ELSE Dbl(100))
      /\ ~dblLt(score, Dbl(0)) /\ ~dblGt(score, Dbl(100))
      /\ risk.result.riskLevel = "Low" <=> dblLt(score, Dbl(30))
      /\ risk.result.riskLevel = "Moderate" <=> ~dblLt(score, Dbl(30)) /\ dblLt(score, Dbl(60))
      /\ risk.result.riskLevel = "High" <=> ~dblLt(score, Dbl(60))
      /\ risk.result.volatility = mathSqrt(C19_SumOfSquares(allocation, Len(keys)))
      /\ (allocation.cash = 100 => risk.result.riskLevel = "Low"))

\* half of the portfolio in real estate and nothing else: the score is
\* exactly 30, the lowest "Moderate" one
C19_Witness ==
  /\ risk.called
  /\ allocation.realEstate = 50 /\ allocation.stocks = 0 /\ allocation.bonds = 0
  /\ allocation.commodities = 0 /\ allocation.cash = 0
  /\ risk.result.riskScore = Dbl(30)
  /\ risk.result.riskLevel = "Moderate"

(***************************************************************************)
(* The portfolio performance                                               *)
(***************************************************************************)
\* the sum over the first n holdings of shares x the price of the given name
RECURSIVE C20_Worth(_, _, _)
C20_Worth(holdings, n, price) ==
  IF n = 0 THEN Dbl(0)
  ELSE dblAdd(C20_Worth(holdings, n - 1, price),
              dblMul(holdings[n].shares, holdings[n][price]))

\* the number of holdings whose symbol no earlier holding has
C20_DistinctSymbols(holdings) ==
  Cardinality({i \in DOMAIN holdings :
                 \A j \in 1..(i - 1) : holdings[j].symbol # holdings[i].symbol})

\* part / whole x 100, or 0 when the whole is 0
C20_Percentage(part, whole) ==
  IF isZero(whole) THEN Dbl(0) ELSE dblMul(dblDiv(part, whole), Dbl(100))

\* C20: totalValue is the sum of shares x current price, totalGain is
\* totalValue - the sum of shares x purchase price, totalGainPercentage is
\* totalGain / totalCost x 100 or 0 when totalCost is 0,
\* dayChangePercentage is dayChange / totalValue x 100 or 0 when totalValue
\* is 0, and diversificationScore is min(distinct symbols x 10, 100), within
\* [0, 100], a symbol held in several lots counted once; an empty list of
\* holdings gives 0 in every field.
C20_PortfolioPerformance ==
  performance.called =>
    Const2(C20_Worth(investments, Len(investments), "current_price"),
           C20_Worth(investments, Len(investments), "purchase_price"),
           LAMBDA totalValue, totalCost :
      /\ performance.result.totalValue = totalValue
      /\ performance.result.totalGain = dblSub(totalValue, totalCost)
      /\ performance.result.totalGainPercentage =
           C20_Percentage(performance.result.totalGain, totalCost)
      /\ performance.result.dayChangePercentage =
           C20_Percentage(performance.result.dayChange, totalValue)
      /\ performance.result.diversificationScore =
           Dbl(IF C20_DistinctSymbols(investments) * 10 < 100
               THEN C20_DistinctSymbols(investments) * 10 ELSE 100)
      /\ ~dblLt(performance.result.diversificationScore, Dbl(0))
      /\ ~dblGt(performance.result.diversificationScore, Dbl(100))
      /\ (investments = <<>> =>
            \A field \in DOMAIN performance.result : performance.result[field] = Dbl(0)))

\* three lots of one symbol beside another symbol: a score of 20
C20_Witness ==
  /\ performance.called
  /\ Len(investments) = 4
  /\ C20_DistinctSymbols(investments) = 2
  /\ performance.result.diversificationScore = Dbl(20)
  /\ dblGt(performance.result.totalValue, Dbl(0))

\* the metrics of an account without transactions and without balance
C24_AllZero ==
  /\ metrics.result = metricsOf(0, 0, 0, 0)
  /\ spending.result = analyzeSpendingByCategory(<<>>, May15, 0)

\* C24: generateFinancialInsights never returns an empty list: it returns
\* between 1 and 5 insights, exactly one from the savings-rate rule and at
\* most one from each of the four other rules; for all-zero metrics and no
\* transactions it returns exactly the two critical insights "Low Savings
\* Rate" and "Insufficient Emergency Fund", in that order.
C24_OneToFiveInsights ==
  insights.called =>
    /\ Len(insights.result) \in 1..5
    /\ Len(RuleInsights(1)) = 1
    /\ \A k \in 2..5 : Len(RuleInsights(k)) <= 1
    /\ C24_AllZero =>
         insights.result = << Insight("critical", "Low Savings Rate", "high"),
                              Insight("critical", "Insufficient Emergency Fund", "high") >>

\* the insights of an account without transactions
C24_Witness ==
  /\ insights.called
  /\ C24_AllZero
  /\ Len(insights.result) = 2

\* the description, in lower case, contains the keyword
C28_Mentions(keyword) == includes(toLowerCase(description), keyword)

C28_RentalIncome == <<"r","e","n","t","a","l"," ","i","n","c","o","m","e">>
C28_InvestmentIncome == <<"i","n","v","e","s","t","m","e","n","t"," ","i","n","c","o","m","e">>
C28_Insurance == <<"i","n","s","u","r","a","n","c","e">>
C28_Maintenance == <<"m","a","i","n","t","e","n","a","n","c","e">>

\* C28: keywords shadowed by earlier categories never select their own
\* category: no description containing "rental income" or "investment
\* income" is categorized as Income, and no description containing
\* "insurance" or "maintenance" is categorized as Transportation, because
\* Housing matches them first.
C28_ShadowedKeywords ==
  category # NoResult =>
    /\ C28_Mentions(C28_RentalIncome) \/ C28_Mentions(C28_InvestmentIncome)
         => category # "Income"
    /\ C28_Mentions(C28_RentalIncome) => category = "Housing"
    /\ C28_Mentions(C28_Insurance) \/ C28_Mentions(C28_Maintenance)
         => category = "Housing" /\ category # "Transportation"

\* "salary" followed by "investment income" is not Income
C28_Witness ==
  /\ category # NoResult
  /\ C28_Mentions(C28_InvestmentIncome)
  /\ C28_Mentions(<<"s","a","l","a","r","y">>)
  /\ category = "Savings"

(***************************************************************************)
(* The age-based allocation as a set of percentages                        *)
(***************************************************************************)
\* C25: for every age >= 0 and every risk tolerance, each component of the
\* age-based allocation is a percentage in [0, 100]: stocks never exceeds
\* 100 and bonds is never negative.
C25_ValidPercentages ==
  ageBasedAllocation.called /\ profile.currentAge >= 0 =>
    \A key \in DOMAIN ageBasedAllocation.result :
      /\ ~dblLt(ageBasedAllocation.result[key], Dbl(0))
      /\ ~dblGt(ageBasedAllocation.result[key], Dbl(100))

\* 2^-46, the distance between neighbouring binary64 numbers from 64 to 128
C26_Ulp == dblDiv(Dbl(1), dblMul(Dbl(8388608), Dbl(8388608)))

\* x and y are equal or neighbouring binary64 numbers between 64 and 128
C26_Near(x, y) == ~dblGt(dblSub(x, y), C26_Ulp) /\ ~dblGt(dblSub(y, x), C26_Ulp)

\* C26: for every age and risk tolerance the age-based allocation has cash =
\* 5 exactly, realEstate and commodities are 0.6 x remaining and 0.3 x
\* remaining with the caps 15 and 10 never the binding term, and the five
\* components sum to 105 - 0.1 x remaining (to the last binary place of the
\* sum), a value in [103, 105] that is never 100; for aggressive tolerance
\* realEstate and commodities are 0.
C26_SumsTo105LessTenth ==
  ageBasedAllocation.called =>
    Const2(dblSub(dblSub(Dbl(100), ageBasedAllocation.result.stocks),
                  ageBasedAllocation.result.bonds),
           totalOf(ageBasedAllocation.result), LAMBDA remaining, total :
      /\ ageBasedAllocation.result.cash = Dbl(5)
      /\ ageBasedAllocation.result.realEstate = dblMul(remaining, Lit_0_6)
      /\ dblLt(dblMul(remaining, Lit_0_6), Dbl(15))
      /\ ageBasedAllocation.result.commodities = dblMul(remaining, Lit_0_3)
      /\ dblLt(dblMul(remaining, Lit_0_3), Dbl(10))
      /\ C26_Near(total, dblSub(Dbl(105), dblMul(Lit_0_1, remaining)))
      /\ ~dblLt(total, Dbl(103)) /\ ~dblGt(total, Dbl(105))
      /\ total # Dbl(100)
      /\ (profile.riskTolerance = "aggressive"
            => /\ ageBasedAllocation.result.realEstate = Dbl(0)
               /\ ageBasedAllocation.result.commodities = Dbl(0)))

\* a conservative investor of 80: 20/60/12/6/5, which sum to 103
C26_Witness ==
  /\ ageBasedAllocation.called
  /\ profile.riskTolerance = "conservative"
  /\ profile.currentAge = 80
  /\ ageBasedAllocation.result = Literal(20, 60, 12, 6, 5)
  /\ totalOf(ageBasedAllocation.result) = Dbl(103)

\* the position of a recognized tolerance in the order of increasing risk
C27_Rank(riskTolerance) ==
  IF riskTolerance = "conservative" THEN 1 ELSE IF riskTolerance = "moderate" THEN 2 ELSE 3

\* the stock share of the goal-based allocation of the profile's horizon
\* under another tolerance
C27_StocksUnder(riskTolerance) ==
  calculateGoalBasedAllocation(Dbl(profile.timeHorizon), riskTolerance,
                               firstGoal(profile.investmentGoals)).stocks

\* C27: for every time horizon the stock percentage of the goal-based
\* allocation is monotone in the risk tolerance: aggressive gets at least the
\* stock share of moderate, and moderate at least that of conservative.
C27_StocksMonotoneInTolerance ==
  goalBasedAllocation.called /\ profile.riskTolerance \in Recognized =>
    \A other \in Recognized :
      C27_Rank(profile.riskTolerance) < C27_Rank(other)
        => ~dblGt(goalBasedAllocation.result.stocks, C27_StocksUnder(other))

(***************************************************************************)
(* Properties of the goal functions (checked under SpecContribution and    *)
(* SpecProjection)                                                         *)
(***************************************************************************)
\* C21: the result of calculateMonthlyContributionNeeded is floored at 0: for
\* all inputs, yearsToGoal <= 0 and a current amount above the target
\* included, the returned amount is >= 0.
C21_NeverNegative ==
  contribution.called => dblLe(Dbl(0), contribution.result)

\* the values Math.pow may give the compounding of the goal's months
C22_Compoundings ==
  mathPow(dblAdd(Dbl(1), dblDiv(Dec(goal.expectedReturn[1], goal.expectedReturn[2]), Dbl(12))),
          12 * goal.yearsToGoal)

\* C22: with yearsToGoal > 0 the result is 0 when the compounded current
\* amount meets or exceeds the target; with a zero expected return the
\* result is (target - current) / (12 x yearsToGoal) whenever target >
\* current, (0, 12000, 1, 0) giving 1000, and is never NaN or an infinity.
C22_ZeroWhenMetLinearWhenFlat ==
  contribution.called /\ goal.yearsToGoal > 0 =>
    Const2(Dbl(goal.currentAmount), Dbl(goal.targetAmount), LAMBDA current, target :
      /\ (\A compounding \in C22_Compoundings : dblLe(target, dblMul(current, compounding)))
           => contribution.result = Dbl(0)
      /\ goal.expectedReturn[1] = 0
           => /\ contribution.result.kind = "finite"
              /\ dblGt(target, current)
                   => contribution.result =
                        dblDiv(dblSub(target, current), Dbl(12 * goal.yearsToGoal))
      /\ goal = Goal(0, 12000, 1, <<0, 1>>) => contribution.result = Dbl(1000))

\* 12000 in a year without a return: 1000 a month
C22_Witness ==
  /\ contribution.called
  /\ goal = Goal(0, 12000, 1, <<0, 1>>)
  /\ contribution.result = Dbl(1000)

\* what holds in every state of a projection
C23_Bounded ==
  /\ projection.months <= 600
  /\ projection.pc = "returned" =>
       Const2(Dbl(plan.currentAmount), Dbl(plan.targetAmount), LAMBDA current, target :
         /\ projection.result.projectedAmount = projection.amount
         /\ projection.result.yearsToTarget = dblDiv(Dbl(projection.months), Dbl(12))
         /\ dblLe(projection.result.yearsToTarget, Dbl(50))
         /\ projection.result.onTrack <=> projection.months < 600
         /\ projection.months < 600 => dblLe(target, projection.amount)
         /\ projection.result.onTrack => dblLe(target, projection.result.projectedAmount)
         /\ dblLe(target, current)
              => /\ projection.result.yearsToTarget = Dbl(0)
                 /\ projection.result.projectedAmount = current
                 /\ projection.result.onTrack)

\* a month is added only while the amount is short of the target, and it
\* turns amount into amount x (1 + monthlyRate) + contribution
C23_Month ==
  projection'.months # projection.months =>
    /\ projection'.months = projection.months + 1
    /\ dblLt(projection.amount, Dbl(plan.targetAmount))
    /\ projection'.amount =
         dblAdd(dblMul(projection.amount,
                       dblAdd(Dbl(1), dblDiv(Dec(plan.expectedReturn[1], plan.expectedReturn[2]),
                                             Dbl(12)))),
                Dbl(plan.monthlyContribution))

\* C23: projectInvestmentGoal terminates after at most 600 monthly steps
\* (amount := amount x (1 + monthlyRate) + contribution), stopping at the
\* first month where amount >= target; yearsToTarget = months / 12 <= 50;
\* onTrack is true exactly when the loop stopped with months < 600, and then
\* projectedAmount >= target; if current >= target initially it returns 0
\* years, projectedAmount = current and onTrack = true.
C23_TerminatesWithin600Months ==
  /\ []C23_Bounded
  /\ [][C23_Month]_vars
  /\ <>(projection.pc = "returned")

\* a goal met in the month of the cap: 600 months, the target reached, and
\* not on track
C23_Witness ==
  /\ projection.pc = "returned"
  /\ projection.months = 600
  /\ projection.amount = Dbl(plan.targetAmount)
  /\ ~projection.result.onTrack

(***************************************************************************)
(* Properties of the chat (checked under SpecChat)                         *)
(***************************************************************************)
\* C29: when the user sends a message while no conversation is selected, the
\* page first creates a conversation and then posts the message to /api/chat
\* with the id of the conversation just created and the up-to-date list of
\* messages, so that the exchange is persisted under the new conversation.
C29_PostsUnderNewConversation ==
  request.path = "/api/chat" /\ pending.thenSend /\ page.currentConversation # Null =>
    /\ request.conversationId = page.currentConversation
    /\ request.messages = page.messages

\* C30: the chat route persists messages only for an authenticated user,
\* only when a conversationId is supplied and only after the reply has been
\* generated; whenever the reply of a request is persisted, the user's
\* message that prompted it was persisted before it; if authentication or
\* the generation fails, nothing is persisted and the response is 401 or 500.
C30_PersistsReplyAfterUserMessage ==
  /\ handler.inserted # <<>> =>
       handler.user /\ request.conversationId # Null /\ handler.text # NoText
  /\ handler.inserted \in {<<>>, <<"user">>, <<"user", "assistant">>}
  /\ \A i \in DOMAIN chat_messages :
       chat_messages[i].role = "assistant" =>
         /\ i > 1
         /\ chat_messages[i - 1].role = "user"
         /\ chat_messages[i - 1].conversation_id = chat_messages[i].conversation_id
  /\ request.path = "/api/chat" /\ response # NoResponse /\ handler.text = NoText =>
       response.status \in {401, 500} /\ handler.inserted = <<>>

====
